---- MODULE Spec2Model ----
(***************************************************************************)
(* Playback and scrobble orchestration of radio-server (server.py and      *)
(* scrobble.py): the play/stop request handlers of the asyncio event loop, *)
(* the decoder processes they launch, the metadata monitor with its two    *)
(* stream readers, the scrobbling worker and the executor jobs it submits, *)
(* and the scrobble ledger (table scrobble_history).                       *)
(*                                                                         *)
(* One action is one step of a coroutine between two suspension points     *)
(* (asyncio runs such a step without interleaving), one step of an         *)
(* executor thread, or one event of the environment (a process exits, a    *)
(* pipe delivers a line or closes, the remote endpoint answers).           *)
(*                                                                         *)
(* Python strings are sequences of one-character strings; Python's None is *)
(* the value None below, which is no sequence of characters.               *)
(***************************************************************************)
EXTENDS Integers, Sequences, FiniteSets, TLC

\* ------------------------------------------------------------------ bounds

\* Requests (play or stop) issued in one behaviour. Request r launches
\* process r, worker task r and monitor task r, so this also bounds them.
MaxReq == 3

\* Play requests among them.
MaxPlays == 2

\* Requests issued in one behaviour of ScrobbleSpec.
ScrobbleReq == 2

\* Request handlers that are in flight at the same time.
MaxActive == 2

\* Rows in the ledger beyond which the remote endpoint accepts nothing more.
MaxRows == 2

\* Tokens in the StreamTitle values that ParseSpec draws.
MaxParts == 5

\* Tokens in the StreamTitle values that ValueSpec draws.
MaxTokens == 5

\* Rows in the ledger of DedupSpec beyond which the remote endpoint accepts
\* nothing more.
MaxLedger == 3

\* ----------------------------------------------------------------- strings

None == <<"<None>">>

NoProcess == 0

NoTask == 0

\* s[i..j] as a sequence (empty when j < i).
Slice(s, i, j) == IF j < i THEN <<>> ELSE SubSeq(s, i, j)

\* pat occurs in s at index i.
OccursAt(s, pat, i) ==
    /\ i >= 1
    /\ i + Len(pat) - 1 <= Len(s)
    /\ \A k \in 1..Len(pat) : s[i + k - 1] = pat[k]

\* Index of the first occurrence of pat in s at or after from; 0 when none.
Find(s, pat, from) ==
    LET hits == {i \in from..(Len(s) - Len(pat) + 1) : OccursAt(s, pat, i)}
    IN  IF hits = {} THEN 0 ELSE CHOOSE i \in hits : \A k \in hits : i <= k

\* Python's  pat in s.
Contains(s, pat) == Find(s, pat, 1) # 0

\* Python's  s.startswith(pat).
StartsWith(s, pat) == OccursAt(s, pat, 1)

\* Python's  s.strip()  over the characters the model uses.
Strip(s) ==
    LET keep == {i \in 1..Len(s) : s[i] # " "}
    IN  IF keep = {} THEN <<>>
        ELSE Slice(s, CHOOSE i \in keep : \A k \in keep : i <= k,
                      CHOOSE i \in keep : \A k \in keep : i >= k)

\* A replace that leaves the apostrophes where they are.
KeepApostrophes(s) == s

\* Python's  s.replace("'", "").
RemoveApostrophes(s) == SelectSeq(s, LAMBDA c : c # "'")

\* Python's truth value of an Optional[str].
Truthy(s) == s # None /\ s # <<>>

StreamTitlePrefix == <<"S","t","r","e","a","m","T","i","t","l","e","=","'">>

ValueEnd == <<"'",";">>

IcyPrefix == <<"I","C","Y","-","M","E","T","A",":">>

StreamTitleKey == <<"S","t","r","e","a","m","T","i","t","l","e","=">>

separators == << <<" ","-"," ">>, <<" ","\\u2013"," ">>, <<" ","\\u2014"," ">>,
                 <<" ","|"," ">>, <<":"," ">> >>

\* Index of the last occurrence of pat in s at or after from; 0 when none.
FindLast(s, pat, from) ==
    LET hits == {i \in from..(Len(s) - Len(pat) + 1) : OccursAt(s, pat, i)}
    IN  IF hits = {} THEN 0 ELSE CHOOSE i \in hits : \A k \in hits : i >= k

\* The match of the greedy pattern StreamTitle='(.*)'; instead.
StreamTitleMatchGreedy(line) ==
    LET start == Find(line, StreamTitlePrefix, 1)
        from  == start + Len(StreamTitlePrefix)
        stop  == IF start = 0 THEN 0 ELSE FindLast(line, ValueEnd, from)
    IN  IF start = 0 \/ stop = 0 THEN None ELSE Slice(line, from, stop - 1)

\* re.search(r"StreamTitle='(.*?)';", line): the leftmost StreamTitle=' that
\* is followed by a ';  and, non-greedy, the first ';  after it. The result
\* is group(1), or None when there is no match.
StreamTitleMatch(line) ==
    LET start == Find(line, StreamTitlePrefix, 1)
        from  == start + Len(StreamTitlePrefix)
        stop  == IF start = 0 THEN 0 ELSE Find(line, ValueEnd, from)
    IN  IF start = 0 \/ stop = 0 THEN None ELSE Slice(line, from, stop - 1)

\* A choice of the separator that occurs leftmost in s, whatever its rank.
FirstSeparatorLeftmost(s) ==
    LET found == {k \in 1..Len(separators) : Contains(s, separators[k])}
    IN  IF found = {} THEN 0
        ELSE CHOOSE k \in found :
                \A j \in found :
                   \/ Find(s, separators[k], 1) < Find(s, separators[j], 1)
                   \/ Find(s, separators[k], 1) = Find(s, separators[j], 1)
                      /\ k <= j

\* The index in separators of the first separator that occurs in s; 0 if none.
FirstSeparator(s) ==
    LET found == {k \in 1..Len(separators) : Contains(s, separators[k])}
    IN  IF found = {} THEN 0 ELSE CHOOSE k \in found : \A j \in found : k <= j

\* A result with an empty artist where the code leaves it unset.
NoSeparatorEmptyArtist(stream_title) ==
    [title |-> Strip(stream_title), artist |-> <<>>]

\* server.py:96: no separator occurs in stream_title.
NoSeparatorResult(stream_title) ==
    [title |-> Strip(stream_title), artist |-> None]

\* extract_icy_meta: the pair (title, artist).
extract_icy_meta(icy_meta_line) ==
    LET m == StreamTitleMatch(icy_meta_line)
    IN  IF m = None THEN [title |-> None, artist |-> None]
        ELSE LET stream_title == RemoveApostrophes(Strip(m))
                 k   == FirstSeparator(stream_title)
             IN  IF k = 0
                 THEN NoSeparatorResult(stream_title)
                 ELSE LET sep == separators[k]
                          at  == Find(stream_title, sep, 1)
                      IN  [title  |-> Strip(Slice(stream_title, at + Len(sep),
                                                  Len(stream_title))),
                           artist |-> Strip(Slice(stream_title, 1, at - 1))]

\* A metadata marker line for the StreamTitle value v.
IcyLine(v) == IcyPrefix \o <<" ">> \o StreamTitlePrefix \o v \o ValueEnd

\* The pieces that the StreamTitle values of ParseSpec are made of.
ParseTokens ==
    { <<"a">>, <<"b">>, <<" ">>, <<"'">>, <<" ","-"," ">>, <<":"," ">>,
      <<" ","|"," ">> }

\* The values made of at most n tokens.
RECURSIVE Values(_)
Values(n) ==
    IF n = 0 THEN {<<>>}
    ELSE LET shorter == Values(n - 1)
         IN  shorter \cup {v \o t : v \in shorter, t \in ParseTokens}

\* The pieces that the StreamTitle values of ValueSpec are made of: every
\* separator, the apostrophe and the semicolon that close a value.
ValueTokens ==
    { <<"a">>, <<" ">>, <<"'">>, <<";">>, <<" ","-"," ">>,
      <<" ","\\u2013"," ">>, <<" ","\\u2014"," ">>, <<" ","|"," ">>,
      <<":"," ">> }

\* The values made of at most n of the tokens.
RECURSIVE ValuesOf(_, _)
ValuesOf(tokens, n) ==
    IF n = 0 THEN {<<>>}
    ELSE LET shorter == ValuesOf(tokens, n - 1)
         IN  shorter \cup {v \o t : v \in shorter, t \in tokens}

\* What may follow the StreamTitle pair in the line: nothing, or another pair.
ParseSuffixes ==
    { <<>>, <<"S","t","r","e","a","m","U","r","l","=","'","x","'",";">> }

\* ------------------------------------------------------------------ inputs

StationX == <<"X">>

StationY == <<"Y">>

UnknownStation == <<"U","n","k","n","o","w","n"," ","S","t","a","t","i","o","n">>

Mp3 == <<"m","p","3">>

LinkMp3 == <<"u",".","m","p","3">>

LinkAac == <<"u",".","a","a","c">>

\* The bodies of the play requests: data.get("name"), data.get("link").
PlayInputs ==
    { [name |-> StationX, link |-> LinkMp3],
      [name |-> StationY, link |-> LinkAac],
      [name |-> StationY, link |-> None] }

\* What a decoder writes to a pipe: a track, a track whose artist is the
\* station's own name, a title without separator, and a line that is no marker.
DecoderLines ==
    { IcyLine(<<"A"," ","-"," ","B">>),
      IcyLine(<<"X"," ","-"," ","B">>),
      IcyLine(<<"M">>),
      <<"P","l","a","y">> }

\* The lines that SessionSpec draws from: a track, a marker whose value
\* A - ' leaves an empty title after the apostrophe is removed, and a title
\* without separator (no artist).
TickLines ==
    { IcyLine(<<"A"," ","-"," ","B">>),
      IcyLine(<<"A"," ","-"," ","'">>),
      IcyLine(<<"M">>) }

\* The lines that MonitorSpec draws from. Markers: a track, an empty value,
\* and a value whose two parts are both the name of the stdout reader. No
\* markers: a line without the prefix, one with a StreamTitle pair but not
\* the prefix, one with the prefix but no StreamTitle=, and one whose value
\* is not closed by ';.
MarkerLines ==
    { IcyLine(<<"A"," ","-"," ","B">>),
      IcyLine(<<>>),
      IcyLine(<<"s","t","d","o","u","t"," ","-"," ","s","t","d","o","u","t">>) }

NoMarkerLines ==
    { <<"P","l","a","y">>,
      <<"x"," ">> \o StreamTitlePrefix \o <<"A"," ","-"," ","B">> \o ValueEnd,
      IcyPrefix \o <<" ","x">>,
      IcyPrefix \o <<" ">> \o StreamTitlePrefix \o <<"A"," ","-"," ","B">> }

MonitorLines == MarkerLines \cup NoMarkerLines

\* The lines that Spec draws from: a marker and a line that is none.
ControllerLines == { IcyLine(<<"A"," ","-"," ","B">>), <<"P","l","a","y">> }

\* What extract_icy_meta returns for each line, stripped as read_stream does.
Parsed ==
    [line \in DecoderLines \cup TickLines \cup MonitorLines |->
        extract_icy_meta(Strip(line))]

\* Status codes of the remote endpoint; -1 stands for a failed network call
\* (requests.post raises). A job that has no answer holds 0.
Responses == {200, 500, -1}

\* The ledger as found when the server starts (scrobble_history.db persists).
InitialLedgers ==
    { <<>>,
      << [title |-> <<"B">>, artist |-> <<"A">>, album |-> <<>>,
          station |-> StationX] >> }

Channels == {"stdout", "stderr"}

Requests == 1..MaxReq

\* ------------------------------------------------------------------- state

VARIABLES
    playback_process,      \* server.py:32  0 or the id of a process
    current_station_info,  \* server.py:33
    scrobbling_task,       \* server.py:34  0 or the id of a worker task
    current_track_info,    \* server.py:35
    handler,               \* the request handlers play_station / stop_playback
    process,               \* the decoder processes launched so far
    pipes,                 \* the stdout / stderr pipes of each process
    worker,                \* the scrobbling_worker tasks
    job,                   \* find_track_details_and_scrobble runs in the executor
    monitor,               \* the monitor_mpg123_stdout_and_stderr tasks
    reader,                \* the read_stream tasks of each monitor
    ledger,                \* the rows of table scrobble_history, in ROWID order
    credentials,           \* whether PHPSESSID and OPEN_SCROBBLER_JWT are set
    track_source,          \* the process whose output current_track_info holds
    call                   \* a call of extract_icy_meta: argument and result

vars == <<playback_process, current_station_info, scrobbling_task,
          current_track_info, handler, process, pipes, worker, job, monitor,
          reader, ledger, credentials, track_source, call>>

controller == <<playback_process, current_station_info, scrobbling_task,
                current_track_info, track_source>>

NoStation == [name |-> None, link |-> None]

NoTrack == [title |-> None, artist |-> None, album |-> None]

\* server.py:326-333: the fields of the status answer that tell of the
\* session (the audio device and Bluetooth fields are left out).
NoBody == [is_playing |-> FALSE, station |-> NoStation,
           current_track_info |-> NoTrack]

\* A request handler. waiting_for is the task or the process it awaits.
\* old_task, old_process and alone record how the request found the
\* program: the session registered then, and that no other handler was in
\* flight. No action reads these three.
\* body is the answer of get_status as far as it is built.
IdleHandler == [kind |-> "none", name |-> None, link |-> None, pc |-> "idle",
                waiting_for |-> 0, status_code |-> 0,
                old_task |-> 0, old_process |-> 0, alone |-> FALSE,
                body |-> NoBody]

\* A worker task, with the locals title, artist and album of its last pass.
NoWorker == [pc |-> "none", cancelled |-> FALSE, station_name |-> None,
             title |-> None, artist |-> None, album |-> None]

NoJob == [pc |-> "none", station_name |-> None, title |-> None,
          artist |-> None, album |-> None, response |-> 0]

NoMonitor == [pc |-> "none", bound |-> NoProcess]

\* command is the program the process was started with.
NoProc == [state |-> "none", sigterm |-> FALSE, command |-> "none"]

\* No call of extract_icy_meta is being followed.
NoCall == [pc |-> "none", value |-> <<>>, suffix |-> <<>>,
           icy_meta_line |-> <<>>, title |-> None, artist |-> None]

\* scrobble.py:13-15 and 29: both environment variables are set.
BothCredentials == [PHPSESSID |-> TRUE, Authorization |-> TRUE]

\* The program after start-up, but for the credentials and for the call that
\* is followed.
Loaded ==
    /\ playback_process = NoProcess
    /\ current_station_info = NoStation
    /\ scrobbling_task = NoTask
    /\ current_track_info = NoTrack
    /\ handler = [r \in Requests |-> IdleHandler]
    /\ process = [p \in Requests |-> NoProc]
    /\ pipes = [p \in Requests |-> [c \in Channels |-> "none"]]
    /\ worker = [w \in Requests |-> NoWorker]
    /\ job = [w \in Requests |-> NoJob]
    /\ monitor = [m \in Requests |-> NoMonitor]
    /\ reader = [m \in Requests |-> [c \in Channels |-> "none"]]
    /\ ledger \in InitialLedgers
    /\ track_source = NoProcess

\* The program after start-up with both credentials configured, but for the
\* call that is followed.
Started == Loaded /\ credentials = BothCredentials

Init == Started /\ call = NoCall

\* ------------------------------------------------------- playback controller

\* playback_process.returncode is None
Running(p) == process[p].state = "alive"

\* scrobbling_task.done()
TaskDone(w) == worker[w].pc = "done"

\* A wait() that gives up on a process that is still running.
WaitTimesOut(p) == process[p].state # "none"

\* Process.wait() returns once the process has exited and its pipes are closed.
WaitReturns(p) ==
    /\ process[p].state = "exited"
    /\ \A c \in Channels : pipes[p][c] # "open"

\* gather() is still waiting for a reader of monitor m.
Reading(m) == \E c \in Channels : reader[m][c] \in {"created", "wait"}

\* A coroutine step is in the event loop's ready queue: a task just created,
\* or one whose awaited future is done. The loop runs these before it polls
\* for I/O and timers again.
ReadyStep ==
    \/ \E r \in Requests :
          \/ handler[r].pc = "await_task" /\ TaskDone(handler[r].waiting_for)
          \/ handler[r].pc = "await_process"
             /\ WaitReturns(handler[r].waiting_for)
    \/ \E w \in Requests :
          \/ worker[w].pc = "created"
          \/ worker[w].cancelled /\ worker[w].pc # "done"
    \/ \E m \in Requests :
          \/ monitor[m].pc = "created"
          \/ monitor[m].pc = "gather" /\ ~Reading(m)
          \/ \E c \in Channels : reader[m][c] = "created"

\* The handler's record when it has returned a response with this status.
Returned(h, status_code) ==
    [IdleHandler EXCEPT !.kind = h.kind, !.pc = "done",
                        !.status_code = status_code]

\* The handler's record when stop_playback_logic has returned: play_station
\* goes on to read the request body, stop_playback returns its response.
AfterStop(h) ==
    IF h.kind = "play"
    THEN [h EXCEPT !.pc = "json", !.waiting_for = 0]
    ELSE Returned(h, 200)

\* A reset that forgets line 250 and leaves current_track_info as it is.
ResetSessionKeepsTrack ==
    /\ playback_process' = NoProcess
    /\ current_station_info' = NoStation
    /\ UNCHANGED <<current_track_info, track_source>>

\* server.py:248-250
ResetSession ==
    /\ playback_process' = NoProcess
    /\ current_station_info' = NoStation
    /\ current_track_info' = NoTrack
    /\ track_source' = NoProcess

\* A teardown that forgets the test of returncode in line 242: it signals
\* and awaits whatever process is recorded.
StopProcessAnyState(r, h) ==
    IF playback_process # NoProcess
    THEN /\ process' = [process EXCEPT ![playback_process].sigterm = TRUE]
         /\ handler' = [handler EXCEPT ![r] =
                [h EXCEPT !.pc = "await_process",
                          !.waiting_for = playback_process]]
         /\ UNCHANGED <<playback_process, current_station_info,
                        current_track_info, track_source>>
    ELSE /\ ResetSession
         /\ handler' = [handler EXCEPT ![r] = AfterStop(h)]
         /\ UNCHANGED process

\* server.py:241-250, up to the await of playback_process.wait() if the
\* process is running. h is the record of handler r so far.
StopProcess(r, h) ==
    IF playback_process # NoProcess /\ Running(playback_process)
    THEN /\ process' = [process EXCEPT ![playback_process].sigterm = TRUE]
         /\ handler' = [handler EXCEPT ![r] =
                [h EXCEPT !.pc = "await_process",
                          !.waiting_for = playback_process]]
         /\ UNCHANGED <<playback_process, current_station_info,
                        current_track_info, track_source>>
    ELSE /\ ResetSession
         /\ handler' = [handler EXCEPT ![r] = AfterStop(h)]
         /\ UNCHANGED process

\* server.py:231-250, up to the first await that suspends: the start of
\* stop_playback_logic, called first thing by both handlers.
StopBegin(r, h) ==
    IF scrobbling_task # NoTask /\ ~TaskDone(scrobbling_task)
    THEN /\ worker' = [worker EXCEPT ![scrobbling_task].cancelled = TRUE]
         /\ handler' = [handler EXCEPT ![r] =
                [h EXCEPT !.pc = "await_task", !.waiting_for = scrobbling_task]]
         /\ UNCHANGED <<controller, process>>
    ELSE /\ StopProcess(r, h)
         /\ UNCHANGED <<worker, scrobbling_task>>

\* Requests arrive in the order of their ids, while fewer than MaxActive
\* handlers are in flight.
NextRequest(r) ==
    /\ ~ReadyStep
    /\ handler[r].pc = "idle"
    /\ Cardinality({q \in Requests :
                        handler[q].pc \notin {"idle", "done", "raised"}})
          < MaxActive
    /\ \A q \in Requests : q < r => handler[q].pc # "idle"

\* The record of a handler that starts.
Arrival(kind) ==
    [IdleHandler EXCEPT
        !.kind = kind,
        !.old_task = scrobbling_task,
        !.old_process = playback_process,
        !.alone = \A q \in Requests :
                     handler[q].pc \in {"idle", "done", "raised"}]

\* A POST /api/play arrives: play_station up to its first suspension.
PlayRequest(r, in) ==
    /\ NextRequest(r)
    /\ Cardinality({q \in Requests : handler[q].kind = "play"}) < MaxPlays
    /\ StopBegin(r, [Arrival("play") EXCEPT !.name = in.name,
                                            !.link = in.link])
    /\ UNCHANGED <<pipes, job, monitor, reader, ledger, credentials, call>>

\* A POST /api/stop arrives: stop_playback up to its first suspension.
StopRequest(r) ==
    /\ NextRequest(r)
    /\ StopBegin(r, Arrival("stop"))
    /\ UNCHANGED <<pipes, job, monitor, reader, ledger, credentials, call>>

\* A step of TaskAwaited that does not wait for the task to end.
TaskAwaitedEarly(r) ==
    /\ handler[r].pc = "await_task"
    /\ scrobbling_task' = NoTask
    /\ StopProcess(r, handler[r])
    /\ UNCHANGED <<pipes, worker, job, monitor, reader, ledger, credentials,
                   call>>

\* server.py:236-250: the awaited worker task is done; the handler goes on.
TaskAwaited(r) ==
    /\ handler[r].pc = "await_task"
    /\ TaskDone(handler[r].waiting_for)
    /\ scrobbling_task' = NoTask
    /\ StopProcess(r, handler[r])
    /\ UNCHANGED <<pipes, worker, job, monitor, reader, ledger, credentials, call>>

\* server.py:245-250: the awaited process has exited; the state is reset.
ProcessAwaited(r) ==
    /\ handler[r].pc = "await_process"
    /\ WaitReturns(handler[r].waiting_for)
    /\ ResetSession
    /\ handler' = [handler EXCEPT ![r] = AfterStop(handler[r])]
    /\ UNCHANGED <<scrobbling_task, process, pipes, worker, job, monitor,
                   reader, ledger, credentials, call>>

\* The handler's record when an exception has left it: no response is
\* returned to the caller.
Raised(h) == [IdleHandler EXCEPT !.kind = h.kind, !.pc = "raised"]

\* server.py:491: the body of the request is not JSON; request.json() raises
\* outside the try of line 509 and the exception leaves play_station.
PlayBodyRaises(r) ==
    /\ ~ReadyStep
    /\ handler[r].kind = "play"
    /\ handler[r].pc = "json"
    /\ handler' = [handler EXCEPT ![r] = Raised(handler[r])]
    /\ UNCHANGED <<controller, process, pipes, worker, job, monitor, reader,
                   ledger, credentials, call>>

\* A play_station that captures the output of every decoder.
CapturesAlways(station_link) == Truthy(station_link)

\* "mp3" in station_link: capture the output and start a monitor.
CapturesOutput(station_link) == Contains(station_link, Mp3)

\* server.py:501-505: the program of the decoder command.
Command(station_link) ==
    IF Contains(station_link, Mp3) THEN "mpg123" ELSE "ffplay"

\* server.py:491-531, from the request body to the await inside
\* create_subprocess_exec. The process is forked before that await; a failed
\* exec raises here and is answered with status 500.
PlayLaunch(r, launched) ==
    /\ ~ReadyStep
    /\ handler[r].pc = "json"
    /\ IF ~Truthy(handler[r].link)
       THEN /\ handler' = [handler EXCEPT ![r] = Returned(handler[r], 400)]
            /\ UNCHANGED <<process, pipes>>
       ELSE IF ~launched
       THEN /\ handler' = [handler EXCEPT ![r] = Returned(handler[r], 500)]
            /\ UNCHANGED <<process, pipes>>
       ELSE /\ handler' = [handler EXCEPT ![r].pc = "await_exec"]
            /\ process' = [process EXCEPT
                   ![r].state = "alive",
                   ![r].command = Command(handler[r].link)]
            /\ pipes' = [pipes EXCEPT ![r] = [c \in Channels |->
                   IF CapturesOutput(handler[r].link) THEN "open" ELSE "none"]]
    /\ UNCHANGED <<controller, worker, job, monitor, reader, ledger,
                   credentials, call>>

\* server.py:512-528: create_subprocess_exec has returned; the session is
\* recorded, the monitor task (mp3 only) and the worker task are created.
PlayRecord(r) ==
    /\ ~ReadyStep
    /\ handler[r].pc = "await_exec"
    /\ playback_process' = r
    /\ monitor' = IF CapturesOutput(handler[r].link)
                  THEN [monitor EXCEPT ![r].pc = "created"]
                  ELSE monitor
    /\ current_station_info' = [name |-> handler[r].name,
                                link |-> handler[r].link]
    /\ scrobbling_task' = r
    /\ worker' = [worker EXCEPT ![r] =
           [NoWorker EXCEPT
               !.pc = "created",
               !.station_name = IF Truthy(handler[r].name) THEN handler[r].name
                                ELSE UnknownStation]]
    /\ handler' = [handler EXCEPT ![r] = Returned(handler[r], 200)]
    /\ UNCHANGED <<current_track_info, track_source, process, pipes, job,
                   reader, ledger, credentials, call>>

\* ------------------------------------------------------------------- status

\* A GET /api/status arrives: get_status up to the await of the Bluetooth
\* script (server.py:278-285).
StatusRequest(r) ==
    /\ NextRequest(r)
    /\ handler' = [handler EXCEPT ![r] =
           [Arrival("status") EXCEPT !.pc = "bluetooth"]]
    /\ UNCHANGED <<controller, process, pipes, worker, job, monitor, reader,
                   ledger, credentials, call>>

\* server.py:285-324: the script has ended; is_playing is read and the
\* handler awaits is_audio_device_connected().
StatusPlaying(r) ==
    /\ ~ReadyStep
    /\ handler[r].pc = "bluetooth"
    /\ handler' = [handler EXCEPT
           ![r].pc = "audio",
           ![r].body.is_playing =
               (playback_process # NoProcess /\ Running(playback_process))]
    /\ UNCHANGED <<controller, process, pipes, worker, job, monitor, reader,
                   ledger, credentials, call>>

\* A get_status that clears the track of a session that is not playing.
StatusReturnClears(r) ==
    /\ ~ReadyStep
    /\ handler[r].pc = "audio"
    /\ current_track_info' =
           IF handler[r].body.is_playing THEN current_track_info ELSE NoTrack
    /\ handler' = [handler EXCEPT ![r] =
           [Returned(handler[r], 200) EXCEPT
               !.body = [is_playing |-> handler[r].body.is_playing,
                         station |-> current_station_info,
                         current_track_info |-> current_track_info']]]
    /\ UNCHANGED <<playback_process, current_station_info, scrobbling_task,
                   track_source, process, pipes, worker, job, monitor, reader,
                   ledger, credentials, call>>

\* server.py:324-338: the audio check has ended; the answer is built from
\* current_station_info and current_track_info and returned.
StatusReturn(r) ==
    /\ ~ReadyStep
    /\ handler[r].pc = "audio"
    /\ handler' = [handler EXCEPT ![r] =
           [Returned(handler[r], 200) EXCEPT
               !.body = [is_playing |-> handler[r].body.is_playing,
                         station |-> current_station_info,
                         current_track_info |-> current_track_info]]]
    /\ UNCHANGED <<controller, process, pipes, worker, job, monitor, reader,
                   ledger, credentials, call>>

\* ------------------------------------------------------------ decoder process

\* The decoder exits: by itself (end of stream, crash) or after terminate().
ProcessExit(p) ==
    /\ ~ReadyStep
    /\ process[p].state = "alive"
    /\ process' = [process EXCEPT ![p].state = "exited", ![p].sigterm = FALSE]
    /\ UNCHANGED <<controller, handler, pipes, worker, job, monitor, reader,
                   ledger, credentials, call>>

\* --------------------------------------------------------- metadata monitor

\* The stream_name argument of read_stream as a Python string.
StreamName(c) ==
    IF c = "stdout" THEN <<"s","t","d","o","u","t">>
    ELSE <<"s","t","d","e","r","r">>

\* Some read_stream task is suspended in readline() on pipe c of process p.
ReaderWaiting(p, c) ==
    \E m \in Requests : monitor[m].bound = p /\ reader[m][c] = "wait"

\* server.py:129-132: the loop test of read_stream and the call of readline()
\* for the reader of monitor m on channel c; the reader's next state. A
\* second readline() on a stream raises RuntimeError, which line 158 catches.
ReadNext(m, c) ==
    IF playback_process # NoProcess /\ Running(playback_process)
       /\ ~ReaderWaiting(monitor[m].bound, c)
       /\ pipes[monitor[m].bound][c] = "open"
    THEN "wait"
    ELSE "done"

\* server.py:112-170: the first step of the monitor task. It reads the
\* global playback_process and creates a reader per captured pipe.
MonitorStart(m) ==
    /\ monitor[m].pc = "created"
    /\ IF playback_process = NoProcess
       THEN /\ monitor' = [monitor EXCEPT ![m].pc = "done"]
            /\ UNCHANGED reader
       ELSE /\ reader' = [reader EXCEPT ![m] = [c \in Channels |->
                   IF pipes[playback_process][c] # "none" THEN "created"
                   ELSE "none"]]
            /\ monitor' = [monitor EXCEPT ![m] =
                   [pc |-> IF \E c \in Channels :
                                 pipes[playback_process][c] # "none"
                           THEN "gather" ELSE "done",
                    bound |-> playback_process]]
    /\ UNCHANGED <<controller, handler, process, pipes, worker, job, ledger,
                   credentials, call>>

\* server.py:128-132: the first step of a read_stream task.
ReaderStart(m, c) ==
    /\ reader[m][c] = "created"
    /\ reader' = [reader EXCEPT ![m][c] = ReadNext(m, c)]
    /\ UNCHANGED <<controller, handler, process, pipes, worker, job, monitor,
                   ledger, credentials, call>>

\* A read_stream that forgets the test of the prefix in line 141.
PublishesWithoutPrefix(line_str, stream_name) ==
    /\ Contains(line_str, StreamTitleKey)
    /\ LET meta == extract_icy_meta(line_str)
       IN  /\ Truthy(meta.title) \/ Truthy(meta.artist)
           /\ meta.title # stream_name \/ meta.artist # stream_name

\* server.py:141-152: whether read_stream stores what it parsed from line_str.
Publishes(line_str, stream_name) ==
    /\ StartsWith(line_str, IcyPrefix)
    /\ Contains(line_str, StreamTitleKey)
    /\ LET meta == extract_icy_meta(line_str)
       IN  /\ Truthy(meta.title) \/ Truthy(meta.artist)
           /\ meta.title # stream_name \/ meta.artist # stream_name

\* Publishes for each line, stripped, on each channel.
Published ==
    [line \in DecoderLines \cup TickLines \cup MonitorLines |->
        [c \in Channels |-> Publishes(Strip(line), StreamName(c))]]

\* server.py:130-153 and back to 129: pipe c of process p delivers a line to
\* the reader suspended on it, which parses it and reads on.
PipeLine(p, c, line) ==
    /\ ~ReadyStep
    /\ pipes[p][c] = "open"
    /\ \E m \in Requests :
          /\ monitor[m].bound = p
          /\ reader[m][c] = "wait"
          /\ LET meta == Parsed[line]
             IN  IF Published[line][c]
                 THEN /\ current_track_info' = [title |-> meta.title,
                                                artist |-> meta.artist,
                                                album |-> None]
                      /\ track_source' = p
                 ELSE UNCHANGED <<current_track_info, track_source>>
          /\ reader' = [reader EXCEPT ![m][c] =
                 IF playback_process # NoProcess /\ Running(playback_process)
                 THEN "wait" ELSE "done"]
    /\ UNCHANGED <<playback_process, current_station_info, scrobbling_task,
                   handler, process, pipes, worker, job, monitor, ledger,
                   credentials, call>>

\* server.py:130-132: the write end of pipe c of the exited process p is
\* closed; readline() returns b"" and the reader suspended on it breaks.
PipeEOF(p, c) ==
    /\ ~ReadyStep
    /\ process[p].state = "exited"
    /\ pipes[p][c] = "open"
    /\ pipes' = [pipes EXCEPT ![p][c] = "eof"]
    /\ reader' = [m \in Requests |->
           IF monitor[m].bound = p /\ reader[m][c] = "wait"
           THEN [reader[m] EXCEPT ![c] = "done"] ELSE reader[m]]
    /\ UNCHANGED <<controller, handler, process, worker, job, monitor, ledger,
                   credentials, call>>

\* An exception in one reader that ends its sibling as well.
ReadRaisesEndsBoth(p, c) ==
    /\ ~ReadyStep
    /\ pipes[p][c] = "open"
    /\ \E m \in Requests : monitor[m].bound = p /\ reader[m][c] = "wait"
    /\ reader' = [m \in Requests |->
           IF monitor[m].bound = p /\ reader[m][c] = "wait"
           THEN [d \in Channels |->
                    IF reader[m][d] = "none" THEN "none" ELSE "done"]
           ELSE reader[m]]
    /\ UNCHANGED <<controller, handler, process, pipes, worker, job, monitor,
                   ledger, credentials, call>>

\* server.py:130 and 158-159: readline() raises (a line longer than the
\* reader's limit) in the reader suspended on pipe c of process p; the
\* exception is caught and the reader ends. The pipe stays as it is.
ReadRaises(p, c) ==
    /\ ~ReadyStep
    /\ pipes[p][c] = "open"
    /\ \E m \in Requests : monitor[m].bound = p /\ reader[m][c] = "wait"
    /\ reader' = [m \in Requests |->
           IF monitor[m].bound = p /\ reader[m][c] = "wait"
           THEN [reader[m] EXCEPT ![c] = "done"] ELSE reader[m]]
    /\ UNCHANGED <<controller, handler, process, pipes, worker, job, monitor,
                   ledger, credentials, call>>

\* server.py:170: both readers are done, gather() returns, the task ends.
MonitorFinish(m) ==
    /\ monitor[m].pc = "gather"
    /\ ~Reading(m)
    /\ monitor' = [monitor EXCEPT ![m].pc = "done"]
    /\ UNCHANGED <<controller, handler, process, pipes, worker, job, reader,
                   ledger, credentials, call>>

\* ----------------------------------------------------------- scrobble worker

\* A guard that forgets to test the artist for None.
SubmitsUnsetArtist(title, artist, station_name) ==
    /\ title # None
    /\ artist # station_name
    /\ title # station_name

\* A guard that forgets the two comparisons with the station name.
SubmitsAnyName(title, artist, station_name) ==
    /\ title # None
    /\ artist # None

\* server.py:204: the worker hands the track to find_track_details_and_scrobble.
Submits(title, artist, station_name) ==
    /\ title # None
    /\ artist # None
    /\ artist # station_name
    /\ title # station_name

\* A pass that takes the title now and keeps the artist it took in the pass
\* before.
TickTorn(w) ==
    /\ ~worker[w].cancelled
    /\ LET title  == current_track_info.title
           artist == worker[w].artist
           album  == current_track_info.album
       IN  IF Submits(title, artist, worker[w].station_name)
           THEN /\ worker' = [worker EXCEPT ![w].pc = "executor",
                                             ![w].title = title,
                                             ![w].artist = artist,
                                             ![w].album = album]
                /\ job' = [job EXCEPT ![w] =
                       [pc |-> "queued",
                        station_name |-> worker[w].station_name,
                        title |-> title, artist |-> artist, album |-> album,
                        response |-> 0]]
           ELSE /\ worker' = [worker EXCEPT ![w].pc = "sleep",
                                             ![w].title = title,
                                             ![w].artist = artist,
                                             ![w].album = album]
                /\ UNCHANGED job
    /\ UNCHANGED <<controller, handler, process, pipes, monitor, reader,
                   ledger, credentials, call>>

\* server.py:196-214: one pass of the worker's loop, from the snapshot of
\* current_track_info to the await of the executor or of the sleep.
Tick(w) ==
    /\ ~worker[w].cancelled
    /\ LET title  == current_track_info.title
           artist == current_track_info.artist
           album  == current_track_info.album
       IN  IF Submits(title, artist, worker[w].station_name)
           THEN /\ worker' = [worker EXCEPT ![w].pc = "executor",
                                             ![w].title = title,
                                             ![w].artist = artist,
                                             ![w].album = album]
                /\ job' = [job EXCEPT ![w] =
                       [pc |-> "queued",
                        station_name |-> worker[w].station_name,
                        title |-> title, artist |-> artist, album |-> album,
                        response |-> 0]]
           ELSE /\ worker' = [worker EXCEPT ![w].pc = "sleep",
                                             ![w].title = title,
                                             ![w].artist = artist,
                                             ![w].album = album]
                /\ UNCHANGED job
    /\ UNCHANGED <<controller, handler, process, pipes, monitor, reader,
                   ledger, credentials, call>>

\* server.py:193-214: the worker task starts and runs its first pass.
WorkerStart(w) ==
    /\ worker[w].pc = "created"
    /\ Tick(w)

\* server.py:214 and 196-214: the sleep ends and the worker runs a pass.
WorkerTick(w) ==
    /\ ~ReadyStep
    /\ worker[w].pc = "sleep"
    /\ Tick(w)

\* A worker without the handler of line 210: the exception of a failed
\* network call ends the task.
WorkerResumeRaises(w) ==
    /\ ~ReadyStep
    /\ worker[w].pc = "executor"
    /\ ~worker[w].cancelled
    /\ job[w].pc = "done"
    /\ worker' = [worker EXCEPT
           ![w].pc = IF job[w].response = -1 THEN "done" ELSE "sleep"]
    /\ job' = [job EXCEPT ![w] = NoJob]
    /\ UNCHANGED <<controller, handler, process, pipes, monitor, reader,
                   ledger, credentials, call>>

\* server.py:206-214: the executor's future is done (with a result or with
\* the exception line 210 catches); the worker goes to sleep.
WorkerResume(w) ==
    /\ ~ReadyStep
    /\ worker[w].pc = "executor"
    /\ ~worker[w].cancelled
    /\ job[w].pc = "done"
    /\ worker' = [worker EXCEPT ![w].pc = "sleep"]
    /\ job' = [job EXCEPT ![w] = NoJob]
    /\ UNCHANGED <<controller, handler, process, pipes, monitor, reader,
                   ledger, credentials, call>>

\* A worker whose line 210 catches the cancellation as well: the pass ends
\* and the worker sleeps on.
WorkerSwallowsCancel(w) ==
    /\ worker[w].cancelled
    /\ worker[w].pc \in {"created", "sleep", "executor"}
    /\ worker' = [worker EXCEPT ![w].pc = "sleep", ![w].cancelled = FALSE]
    /\ UNCHANGED <<controller, handler, process, pipes, job, monitor, reader,
                   ledger, credentials, call>>

\* server.py:216-218: CancelledError is raised at the worker's suspension
\* point (or before its first step) and ends the task. The executor thread
\* of a submission in flight is not interrupted.
WorkerCancelled(w) ==
    /\ worker[w].cancelled
    /\ worker[w].pc \in {"created", "sleep", "executor"}
    /\ worker' = [worker EXCEPT ![w].pc = "done"]
    /\ UNCHANGED <<controller, handler, process, pipes, job, monitor, reader,
                   ledger, credentials, call>>

\* ---------------------------------------------------------- scrobble ledger

\* The result of fetchone() on an empty table.
NoRow == [title |-> None, artist |-> None, album |-> None]

\* A query that returns the row with the lowest ROWID instead.
get_first_scrobbled_track_in_db(rows) ==
    IF rows = <<>> THEN NoRow
    ELSE [title |-> rows[1].title, artist |-> rows[1].artist,
          album |-> rows[1].album]

\* get_last_scrobbled_track_in_db: title, artist and album of the row with
\* the highest ROWID, or NoRow.
get_last_scrobbled_track_in_db(rows) ==
    IF rows = <<>> THEN NoRow
    ELSE [title |-> rows[Len(rows)].title, artist |-> rows[Len(rows)].artist,
          album |-> rows[Len(rows)].album]

\* A comparison that never finds the candidate in the last row.
SameAsLastNever(title, artist, last_scrobbled_track) == FALSE

\* scrobble.py:187: the candidate is the track of the last row.
SameAsLast(title, artist, last_scrobbled_track) ==
    /\ last_scrobbled_track # NoRow
    /\ title = last_scrobbled_track.title
    /\ artist = last_scrobbled_track.artist

\* scrobble.py:187-195: check_and_make_scrobble_request reaches the branch
\* that sends the request.
Scrobbles(title, artist, station_name, rows) ==
    /\ ~SameAsLast(title, artist, get_last_scrobbled_track_in_db(rows))
    /\ title # <<>>
    /\ ~(title = station_name \/ artist = station_name)

\* A test of the credentials that looks at the session cookie only.
ReachesCheckCookieOnly(title, artist) ==
    /\ credentials.PHPSESSID
    /\ Truthy(title) /\ Truthy(artist)

\* scrobble.py:211-241: find_track_details_and_scrobble gets as far as
\* check_and_make_scrobble_request. (The worker never passes title and
\* artist both None, so the branch of lines 214-235 does not run.)
ReachesCheck(title, artist) ==
    /\ credentials.PHPSESSID /\ credentials.Authorization
    /\ Truthy(title) /\ Truthy(artist)

\* An insertion with the title and the artist in each other's column.
add_play_to_db_swapped(title, artist, album, station, rows) ==
    Append(rows, [title |-> artist, artist |-> title, album |-> album,
                  station |-> station])

\* An insertion that takes the place of the last row.
add_play_to_db_replacing(title, artist, album, station, rows) ==
    Append(IF rows = <<>> THEN rows ELSE SubSeq(rows, 1, Len(rows) - 1),
           [title |-> title, artist |-> artist, album |-> album,
            station |-> station])

\* add_play_to_db: the row inserted for a play (the timestamp column, the
\* wall clock at insertion, is not modelled).
add_play_to_db(title, artist, album, station, rows) ==
    Append(rows, [title |-> title, artist |-> artist, album |-> album,
                  station |-> station])

\* scrobble.py:210-241 and 183-200: the executor thread runs the job up to the POST, or
\* to its end when a test skips the submission.
JobCheck(j) ==
    /\ job[j].pc = "queued"
    /\ IF /\ ReachesCheck(job[j].title, job[j].artist)
          /\ Scrobbles(job[j].title, job[j].artist, job[j].station_name, ledger)
       THEN job' = [job EXCEPT ![j].pc = "post",
                               ![j].album = IF job[j].album = None THEN <<>>
                                            ELSE job[j].album]
       ELSE job' = [job EXCEPT ![j].pc = "done"]
    /\ UNCHANGED <<controller, handler, process, pipes, worker, monitor,
                   reader, ledger, credentials, call>>

\* A job that inserts the row whatever the status code is.
RecordAnyStatus(j, response) ==
    add_play_to_db(job[j].title, job[j].artist, job[j].album,
                   job[j].station_name, ledger)

\* scrobble.py:203-208: what the job does with the status code of the POST.
Record(j, response) ==
    IF response = 200
    THEN add_play_to_db(job[j].title, job[j].artist, job[j].album,
                        job[j].station_name, ledger)
    ELSE ledger

\* scrobble.py:201-208: the POST returns (or raises) and the job ends. The
\* remote endpoint accepts a submission while the ledger has fewer than
\* max_rows rows.
Answered(j, response, max_rows) ==
    /\ job[j].pc = "post"
    /\ response = 200 => Len(ledger) < max_rows
    /\ job' = [job EXCEPT ![j].pc = "done", ![j].response = response]
    /\ ledger' = Record(j, response)
    /\ UNCHANGED <<controller, handler, process, pipes, worker, monitor,
                   reader, credentials, call>>

\* scrobble.py:201-208 for the specifications with sessions.
JobResponse(j, response) == Answered(j, response, MaxRows)

\* ------------------------------------------------------------ the event loop

\* Steps of the ready queue.
Ready ==
    \/ \E r \in Requests : TaskAwaited(r)
    \/ \E r \in Requests : ProcessAwaited(r)
    \/ \E w \in Requests : WorkerStart(w)
    \/ \E w \in Requests : WorkerCancelled(w)
    \/ \E m \in Requests : MonitorStart(m)
    \/ \E m \in Requests, c \in Channels : ReaderStart(m, c)
    \/ \E m \in Requests : MonitorFinish(m)

\* Steps that an I/O event or a timer starts, taken when the ready queue is
\* empty: those of the requests, the processes and the pipes.
ControllerEvent(ids, lines) ==
    \/ \E r \in ids, in \in PlayInputs : PlayRequest(r, in)
    \/ \E r \in ids : StopRequest(r)
    \/ \E r \in ids, launched \in BOOLEAN : PlayLaunch(r, launched)
    \/ \E r \in ids : PlayRecord(r)
    \/ \E p \in ids : ProcessExit(p)
    \/ \E p \in ids, c \in Channels, line \in lines : PipeLine(p, c, line)
    \/ \E p \in ids, c \in Channels : PipeEOF(p, c)
    \/ \E w \in ids : WorkerTick(w)

\* Steps of the executor's threads, which run beside the event loop, and
\* the worker's step that a finished job starts.
Executor ==
    \/ \E j \in Requests : JobCheck(j)
    \/ \E j \in Requests, response \in Responses : JobResponse(j, response)
    \/ \E w \in Requests : WorkerResume(w)

\* The controller, its processes and its tasks; the executor does not get
\* to run the submitted jobs.
Next == Ready \/ ControllerEvent(Requests, ControllerLines)

\* Spec starts with an empty ledger.
ControllerInit == Init /\ ledger = <<>>

Spec == ControllerInit /\ [][Next]_vars

\* The whole program, for fewer requests.
ScrobbleNext ==
    Ready \/ ControllerEvent(1..ScrobbleReq, DecoderLines) \/ Executor

ScrobbleSpec == Init /\ [][ScrobbleNext]_vars

\* The controller for fewer requests, with the lines of MonitorLines and
\* with readers whose readline() raises.
MonitorNext ==
    \/ Ready
    \/ ControllerEvent(1..ScrobbleReq, MonitorLines)
    \/ \E p \in 1..ScrobbleReq, c \in Channels : ReadRaises(p, c)

MonitorSpec == ControllerInit /\ [][MonitorNext]_vars

\* MonitorSpec with the scheduling of the event loop: a handler or task that
\* can go on does, and the pipes of an exited process reach their end.
\* Nothing is assumed of the requests, of the decoders' exits, of the lines
\* they write or of the timers.
MonitorFairSpec ==
    /\ ControllerInit
    /\ [][MonitorNext]_vars
    /\ \A r \in Requests :
          /\ WF_vars(TaskAwaited(r))
          /\ WF_vars(ProcessAwaited(r))
          /\ WF_vars(WorkerStart(r))
          /\ WF_vars(WorkerCancelled(r))
          /\ WF_vars(MonitorStart(r))
          /\ WF_vars(MonitorFinish(r))
          /\ WF_vars(PlayRecord(r))
          /\ \A c \in Channels :
                /\ WF_vars(ReaderStart(r, c))
                /\ WF_vars(PipeEOF(r, c))

\* The controller with play requests whose body is not JSON among the
\* others.
BodyNext ==
    \/ Next
    \/ \E r \in Requests : PlayBodyRaises(r)

BodySpec == ControllerInit /\ [][BodyNext]_vars

\* The controller with status requests among the others.
StatusNext ==
    \/ Next
    \/ \E r \in Requests : StatusRequest(r)
    \/ \E r \in Requests : StatusPlaying(r)
    \/ \E r \in Requests : StatusReturn(r)

StatusSpec == ControllerInit /\ [][StatusNext]_vars

\* One session by itself: a single Play request and what follows it when no
\* further request arrives, with the lines of TickLines.
SessionNext ==
    \/ \E in \in PlayInputs : PlayRequest(1, in)
    \/ \E launched \in BOOLEAN : PlayLaunch(1, launched)
    \/ PlayRecord(1)
    \/ ProcessExit(1)
    \/ \E c \in Channels, line \in TickLines : PipeLine(1, c, line)
    \/ \E c \in Channels : PipeEOF(1, c)
    \/ MonitorStart(1)
    \/ \E c \in Channels : ReaderStart(1, c)
    \/ MonitorFinish(1)
    \/ WorkerStart(1)
    \/ WorkerTick(1)
    \/ JobCheck(1)
    \/ \E response \in Responses : JobResponse(1, response)
    \/ WorkerResume(1)

SessionSpec == Init /\ [][SessionNext]_vars

\* SessionSpec with the scheduling of the event loop and of the executor:
\* a handler or task that can go on does, a timer that has expired fires, a
\* job in the executor runs and its POST ends, and the pipes of an exited
\* process reach their end. Nothing is assumed of the requests, of the
\* decoder's exit or of the lines it writes.
SessionFairSpec ==
    /\ Init
    /\ [][SessionNext]_vars
    /\ WF_vars(\E launched \in BOOLEAN : PlayLaunch(1, launched))
    /\ WF_vars(PlayRecord(1))
    /\ WF_vars(MonitorStart(1))
    /\ \A c \in Channels : WF_vars(ReaderStart(1, c))
    /\ \A c \in Channels : WF_vars(PipeEOF(1, c))
    /\ WF_vars(MonitorFinish(1))
    /\ WF_vars(WorkerStart(1))
    /\ WF_vars(WorkerTick(1))
    /\ WF_vars(JobCheck(1))
    /\ WF_vars(\E response \in Responses : JobResponse(1, response))
    /\ WF_vars(WorkerResume(1))

\* One session by itself, with the environment variables PHPSESSID and
\* OPEN_SCROBBLER_JWT each set or not when scrobble.py is loaded.
CredentialInit ==
    /\ Loaded
    /\ credentials \in [PHPSESSID : BOOLEAN, Authorization : BOOLEAN]
    /\ call = NoCall

CredentialSpec == CredentialInit /\ [][SessionNext]_vars

\* ------------------------------------------------- the submission alone

\* The tracks, albums and stations that DedupSpec draws from: two tracks, a
\* third with the title of the first and the artist of the second, an album
\* or none, two stations.
DedupTracks ==
    { [title |-> <<"B">>, artist |-> <<"A">>],
      [title |-> <<"D">>, artist |-> <<"C">>],
      [title |-> <<"B">>, artist |-> <<"C">>] }

DedupAlbums == { None, <<"L">> }

DedupStations == { StationX, StationY }

\* server.py:206-208: find_track_details_and_scrobble is called in the
\* executor with a station, a track and an album, once the call before it
\* has returned.
ScrobbleCall(j, station_name, track, album) ==
    /\ job[j].pc \in {"none", "done"}
    /\ job' = [job EXCEPT ![j] =
           [pc |-> "queued", station_name |-> station_name,
            title |-> track.title, artist |-> track.artist, album |-> album,
            response |-> 0]]
    /\ UNCHANGED <<controller, handler, process, pipes, worker, monitor,
                   reader, ledger, credentials, call>>

\* One call of find_track_details_and_scrobble after the other, each for any
\* track of any station.
DedupNext ==
    \/ \E station_name \in DedupStations, track \in DedupTracks,
          album \in DedupAlbums : ScrobbleCall(1, station_name, track, album)
    \/ JobCheck(1)
    \/ \E response \in Responses : Answered(1, response, MaxLedger)

DedupSpec == ControllerInit /\ [][DedupNext]_vars

\* ------------------------------------------------------------ the parser alone

\* extract_icy_meta is called with a marker line.
ParseInit ==
    /\ Started
    /\ \E v \in Values(MaxParts), x \in ParseSuffixes :
          call = [NoCall EXCEPT !.pc = "called", !.value = v, !.suffix = x,
                                !.icy_meta_line = IcyLine(v) \o x]

\* server.py:58-99: the call returns its pair.
ExtractReturns ==
    /\ call.pc = "called"
    /\ LET meta == extract_icy_meta(call.icy_meta_line)
       IN  call' = [call EXCEPT !.pc = "returned", !.title = meta.title,
                                !.artist = meta.artist]
    /\ UNCHANGED <<controller, handler, process, pipes, worker, job, monitor,
                   reader, ledger, credentials>>

ParseSpec == ParseInit /\ [][ExtractReturns]_vars

\* extract_icy_meta is called with a marker line whose value is drawn from
\* ValueTokens; the ledger is empty.
ValueInit ==
    /\ Started
    /\ ledger = <<>>
    /\ \E v \in ValuesOf(ValueTokens, MaxTokens), x \in ParseSuffixes :
          call = [NoCall EXCEPT !.pc = "called", !.value = v, !.suffix = x,
                                !.icy_meta_line = IcyLine(v) \o x]

ValueSpec == ValueInit /\ [][ExtractReturns]_vars


\* ------------------------------------------------- claims on the controller

\* C1: at most one decoder process is alive at any time, and an alive
\* process is the one playback_process records. A process whose launch is
\* still being awaited by its own handler (it is forked, the handle is not
\* assigned yet) is not held against the second part.
C1_OneProcess ==
    /\ Cardinality({p \in Requests : Running(p)}) <= 1
    /\ \A p \in Requests :
          Running(p) => playback_process = p \/ handler[p].pc = "await_exec"

\* C2: when a Play request creates a part of its session (the process, the
\* monitor task, the worker task, the station record), the session that the
\* controller holds at that moment, the one the new session replaces, is
\* torn down: its worker task is done and its process has exited.
C2_TeardownBeforeCreate ==
    [][\A r \in Requests :
          ( /\ handler[r].kind = "play"
            /\ \/ process[r].state = "none" /\ process'[r].state # "none"
               \/ monitor[r].pc = "none" /\ monitor'[r].pc # "none"
               \/ worker[r].pc = "none" /\ worker'[r].pc # "none"
               \/ current_station_info' # current_station_info )
          => /\ scrobbling_task # NoTask => TaskDone(scrobbling_task)
             /\ playback_process # NoProcess => ~Running(playback_process)
      ]_vars

\* C3: requests r-1 and r are both Play. In the step in which the second
\* one returns success (its process still alive), its process is the only
\* one alive, and the worker task, the monitor task and the reader tasks of
\* the first one are not running.
C3_Replacement ==
    [][\A r \in Requests \ {1} :
          ( /\ handler[r - 1].kind = "play"
            /\ handler[r].kind = "play"
            /\ handler[r].pc # "done"
            /\ handler'[r].pc = "done"
            /\ handler'[r].status_code = 200
            /\ process'[r].state = "alive" )
          => /\ \A p \in Requests \ {r} : process'[p].state # "alive"
             /\ worker'[r - 1].pc \in {"none", "done"}
             /\ monitor'[r - 1].pc \in {"none", "done"}
             /\ \A c \in Channels : reader'[r - 1][c] \in {"none", "done"}
      ]_vars

\* C4: in the step in which a Stop request returns, no decoder process is
\* alive and no worker task is running.
C4_StopLeavesNothing ==
    [][\A r \in Requests :
          ( /\ handler'[r].kind = "stop"
            /\ handler[r].pc # "done"
            /\ handler'[r].pc = "done" )
          => /\ \A p \in Requests : process'[p].state # "alive"
             /\ \A w \in Requests : worker'[w].pc \in {"none", "done"}
      ]_vars

\* C5: a Stop that arrives when no session is registered returns success in
\* that same step, cancels no task and signals no process; and every Stop,
\* the first or a repeated one, returns with the same observable state: no
\* process handle, empty station identity, all-empty TrackInfo.
C5_StopIdempotent ==
    [][\A r \in Requests :
          /\ ( /\ handler[r].pc = "idle"
               /\ handler'[r].kind = "stop"
               /\ playback_process = NoProcess
               /\ scrobbling_task = NoTask )
             => /\ handler'[r].pc = "done"
                /\ handler'[r].status_code = 200
                /\ worker' = worker
                /\ process' = process
          /\ ( /\ handler'[r].kind = "stop"
               /\ handler[r].pc # "done"
               /\ handler'[r].pc = "done" )
             => /\ handler'[r].status_code = 200
                /\ playback_process' = NoProcess
                /\ current_station_info' = NoStation
                /\ current_track_info' = NoTrack
      ]_vars

\* A Play has been answered, then two Stops in a row, and the second Stop
\* leaves what the first one left.
C5_Witness ==
    \E r \in Requests \ {1, MaxReq} :
       /\ handler[r - 1].kind = "play" /\ handler[r - 1].status_code = 200
       /\ handler[r].kind = "stop" /\ handler[r].pc = "done"
       /\ handler[r + 1].kind = "stop" /\ handler[r + 1].pc = "done"
       /\ playback_process = NoProcess
       /\ current_station_info = NoStation
       /\ current_track_info = NoTrack

\* C6: in the step in which a Play answers that the decoder could not be
\* launched (status 500), no session is registered (no process handle, no
\* station identity, no worker task, no monitor task), TrackInfo is
\* all-empty, and the request has created no process and no task. Stated for
\* a Play during which no other request was in flight.
C6_FailedLaunch ==
    [][\A r \in Requests :
          ( /\ handler[r].pc = "json"
            /\ handler'[r].pc = "done"
            /\ handler'[r].status_code = 500
            /\ handler[r].alone
            /\ \A q \in Requests : q > r => handler[q].pc = "idle" )
          => /\ playback_process' = NoProcess
             /\ current_station_info' = NoStation
             /\ scrobbling_task' = NoTask
             /\ current_track_info' = NoTrack
             /\ process'[r].state = "none"
             /\ worker'[r].pc = "none"
             /\ monitor'[r].pc = "none"
      ]_vars

\* C7: TrackInfo is all-empty, or it was parsed from the output of the
\* process of the session now registered.
C7_TrackOfCurrentSession ==
    \/ current_track_info = NoTrack
    \/ playback_process # NoProcess /\ track_source = playback_process


\* ----------------------------------------------------- claims on the ledger

\* C8: the ledger changes only in the step in which a POST is answered with
\* status 200, and then by one row appended, that of the answered submission.
C8_RowOnlyAfter200 ==
    [][ledger' # ledger =>
          \E j \in Requests :
             /\ job[j].pc = "post"
             /\ job'[j].pc = "done"
             /\ job'[j].response = 200
             /\ ledger' = Append(ledger,
                   [title |-> job[j].title, artist |-> job[j].artist,
                    album |-> job[j].album, station |-> job[j].station_name])
      ]_vars

\* A submission was answered 200 and its row is the last one of the ledger.
C8_Witness ==
    \E j \in Requests :
       /\ job[j].pc = "done"
       /\ job[j].response = 200
       /\ ledger # <<>>
       /\ ledger[Len(ledger)].title = job[j].title
       /\ ledger[Len(ledger)].artist = job[j].artist
       /\ ledger[Len(ledger)].station = job[j].station_name

\* A submission answered with a failure, and no row for it.
C8_WitnessFailure ==
    \E j \in Requests :
       /\ job[j].pc = "done"
       /\ job[j].response \in {500, -1}
       /\ ledger = <<>>

\* C9: when the job that a worker tick has handed to the executor reads the
\* ledger and the title and artist of its last row are those of the tick's
\* TrackInfo, the job ends there: nothing is posted and no row is appended.
C9_DuplicateSuppressed ==
    [][\A j \in Requests :
          ( /\ job[j].pc = "queued"
            /\ job'[j].pc # "queued"
            /\ ledger # <<>>
            /\ job[j].title = ledger[Len(ledger)].title
            /\ job[j].artist = ledger[Len(ledger)].artist )
          => /\ job'[j].pc = "done"
             /\ job'[j].response = 0
             /\ ledger' = ledger
      ]_vars

\* The job of a tick has ended without an answer, and its track is the one of
\* the last row.
C9_Witness ==
    \E j \in Requests :
       /\ job[j].pc = "done"
       /\ job[j].response = 0
       /\ worker[j].pc = "executor"
       /\ job[j].title = worker[j].title
       /\ job[j].artist = worker[j].artist
       /\ ledger # <<>>
       /\ job[j].title = ledger[Len(ledger)].title
       /\ job[j].artist = ledger[Len(ledger)].artist

\* C10: a pass of worker w that finds in TrackInfo a title or an artist equal
\* to the station name it is bound to is skipped: the worker goes to sleep,
\* hands no job to the executor, and the ledger is unchanged; and no job that
\* waits for the executor or is posting carries such a track.
C10_SelfNameSuppressed ==
    [][/\ \A w \in Requests :
             ( /\ worker[w].pc \in {"created", "sleep"}
               /\ worker'[w].pc \in {"sleep", "executor"}
               /\ worker'[w] # worker[w]
               /\ \/ current_track_info.title = worker[w].station_name
                  \/ current_track_info.artist = worker[w].station_name )
             => /\ worker'[w].pc = "sleep"
                /\ job' = job
                /\ ledger' = ledger
       /\ \A j \in Requests :
             job'[j].pc \in {"queued", "post"}
             => /\ job'[j].title # job'[j].station_name
                /\ job'[j].artist # job'[j].station_name
      ]_vars

\* A worker sleeps after a pass whose TrackInfo named the station, with
\* title and artist both set.
C10_Witness ==
    \E w \in Requests :
       /\ worker[w].pc = "sleep"
       /\ worker[w].title # None
       /\ worker[w].artist # None
       /\ \/ worker[w].title = worker[w].station_name
          \/ worker[w].artist = worker[w].station_name
       /\ job[w].pc = "none"


\* ----------------------------------------------------- claims on the parser

\* s is a non-empty text without apostrophes, without surrounding blanks and
\* without any of the separator tokens.
PlainText(s) ==
    /\ s # <<>>
    /\ s[1] # " "
    /\ s[Len(s)] # " "
    /\ \A i \in 1..Len(s) : s[i] # "'"
    /\ ~Contains(s, <<" ","-"," ">>)
    /\ ~Contains(s, <<" ","\\u2013"," ">>)
    /\ ~Contains(s, <<" ","\\u2014"," ">>)
    /\ ~Contains(s, <<" ","|"," ">>)
    /\ ~Contains(s, <<":"," ">>)

\* C14: for a marker line whose StreamTitle value is L - R, with L and R
\* plain texts (no separator token in them), alone or followed by a further
\* key='value'; pair, extract_icy_meta returns artist L and title R.
C14_SeparatorParse ==
    call.pc = "returned" =>
       \A i \in 1..Len(call.value) :
          LET L == SubSeq(call.value, 1, i - 1)
              R == SubSeq(call.value, i + 3, Len(call.value))
          IN  ( /\ i + 3 <= Len(call.value)
                /\ SubSeq(call.value, i, i + 2) = <<" ","-"," ">>
                /\ PlainText(L)
                /\ PlainText(R) )
              => call.artist = L /\ call.title = R

\* The call has returned for the value  a - b  followed by a second pair.
C14_Witness ==
    /\ call.pc = "returned"
    /\ call.value = <<"a"," ","-"," ","b">>
    /\ call.suffix # <<>>
    /\ call.artist = <<"a">>
    /\ call.title = <<"b">>

\* C15: for a marker line whose StreamTitle value, once stripped and freed of
\* apostrophes, contains none of the separator tokens, extract_icy_meta
\* returns that whole value (stripped) as the title and leaves the artist
\* unset; a plain text is returned as it is.
C15_NoSeparatorParse ==
    call.pc = "returned" =>
       LET v == call.value
           n == SelectSeq(v, LAMBDA c : c # "'")
           first == IF \A i \in 1..Len(n) : n[i] = " " THEN 0
                    ELSE CHOOSE i \in 1..Len(n) :
                            n[i] # " " /\ \A k \in 1..(i - 1) : n[k] = " "
           last  == IF first = 0 THEN 0
                    ELSE CHOOSE i \in 1..Len(n) :
                            n[i] # " " /\ \A k \in (i + 1)..Len(n) : n[k] = " "
           whole == IF first = 0 THEN <<>> ELSE SubSeq(n, first, last)
       IN  /\ ( /\ ~Contains(n, <<" ","-"," ">>)
                /\ ~Contains(n, <<" ","|"," ">>)
                /\ ~Contains(n, <<":"," ">>)
                /\ (v = <<>> \/ (v[1] # " " /\ v[Len(v)] # " ")) )
              => call.title = whole /\ call.artist = None
           /\ PlainText(v) => call.title = v /\ call.artist = None

\* The call has returned for the value  ab  without separator.
C15_Witness ==
    /\ call.pc = "returned"
    /\ call.value = <<"a","b">>
    /\ call.title = <<"a","b">>
    /\ call.artist = None


\* ----------------------------------------------------- claims on the worker

\* C11: a pass of a worker that finds the title or the artist of TrackInfo
\* unset goes to sleep without handing anything to the executor; a job whose
\* title is empty ends without a POST; no job that is posting has an unset or
\* empty title or an unset artist; in all these steps the ledger is unchanged.
C11_UnsetSuppressed ==
    [][/\ \A w \in Requests :
             ( /\ worker[w].pc \in {"created", "sleep"}
               /\ worker'[w].pc \in {"sleep", "executor"}
               /\ worker'[w] # worker[w]
               /\ \/ current_track_info.title = None
                  \/ current_track_info.artist = None )
             => /\ worker'[w].pc = "sleep"
                /\ job' = job
                /\ ledger' = ledger
       /\ \A j \in Requests :
             ( /\ job[j].pc = "queued"
               /\ job'[j].pc # "queued"
               /\ job[j].title = <<>> )
             => /\ job'[j].pc = "done"
                /\ job'[j].response = 0
                /\ ledger' = ledger
       /\ \A j \in Requests :
             job'[j].pc = "post"
             => /\ job'[j].title \notin {None, <<>>}
                /\ job'[j].artist # None
      ]_vars

\* The job of a pass whose TrackInfo had an empty title (and an artist) has
\* ended without an answer.
C11_Witness ==
    \E w \in Requests :
       /\ worker[w].pc = "executor"
       /\ worker[w].title = <<>>
       /\ worker[w].artist = <<"A">>
       /\ job[w].pc = "done"
       /\ job[w].response = 0

\* C12: the step in which the submission of worker j is answered 200 appends
\* exactly one row to the ledger, with the title and the artist of the pass,
\* the album of the pass (empty when it is unset) and the worker's station.
C12_RowOfSubmission ==
    [][\A j \in Requests :
          ( /\ job[j].pc = "post"
            /\ job'[j].pc = "done"
            /\ job'[j].response = 200 )
          => /\ Len(ledger') = Len(ledger) + 1
             /\ SubSeq(ledger', 1, Len(ledger)) = ledger
             /\ ledger'[Len(ledger')].title = worker[j].title
             /\ ledger'[Len(ledger')].artist = worker[j].artist
             /\ ledger'[Len(ledger')].album =
                   (IF worker[j].album = None THEN <<>> ELSE worker[j].album)
             /\ ledger'[Len(ledger')].station = worker[j].station_name
      ]_vars

\* The submission of a pass with an unset album was answered 200 and the one
\* row it appended has an empty album.
C12_Witness ==
    \E j \in Requests :
       /\ job[j].pc = "done"
       /\ job[j].response = 200
       /\ worker[j].album = None
       /\ Len(ledger) = 1
       /\ ledger[1] = [title |-> worker[j].title, artist |-> worker[j].artist,
                       album |-> <<>>, station |-> worker[j].station_name]

\* C13: a submission answered with a failure ends the job and leaves the
\* ledger as it is; a job that has ended does not run again; the worker that
\* waited for it goes to sleep unless it is cancelled; and a later pass (a
\* step of the worker itself, not its cancellation by a request) that
\* finds a track in TrackInfo (title and artist set, neither the station
\* name) hands that track to the executor.
C13_FailureNoRetry ==
    [][/\ \A j \in Requests :
             /\ ( /\ job[j].pc = "post"
                  /\ job'[j].pc # "post"
                  /\ job'[j].response # 200 )
                => /\ ledger' = ledger
                   /\ job'[j].pc = "done"
             /\ job[j].pc = "done" => job'[j].pc \in {"done", "none"}
       /\ \A w \in Requests :
             /\ ( /\ worker[w].pc = "executor"
                  /\ job[w].pc = "done"
                  /\ job[w].response \in {500, -1}
                  /\ worker'[w].pc # "executor" )
                => \/ worker'[w].pc = "sleep"
                   \/ worker[w].cancelled /\ worker'[w].pc = "done"
             /\ ( /\ worker[w].pc = "sleep"
                  /\ worker'[w].pc \in {"sleep", "executor"}
                  /\ worker'[w] # worker[w]
                  /\ worker'[w].cancelled = worker[w].cancelled
                  /\ current_track_info.title # None
                  /\ current_track_info.artist # None
                  /\ current_track_info.title # worker[w].station_name
                  /\ current_track_info.artist # worker[w].station_name )
                => /\ worker'[w].pc = "executor"
                   /\ job'[w].pc = "queued"
                   /\ job'[w].title = current_track_info.title
                   /\ job'[w].artist = current_track_info.artist
      ]_vars

\* The network call of a submission has failed; no row was written and the
\* worker, not cancelled, is about to go on.
C13_Witness ==
    \E w \in Requests :
       /\ worker[w].pc = "executor"
       /\ ~worker[w].cancelled
       /\ job[w].pc = "done"
       /\ job[w].response = -1
       /\ ledger = <<>>


\* ------------------------------------------------------ claims on the status

C18_CommandSelection ==
    /\ [](\A p \in Requests :
            /\ process[p].state # "none"
               => /\ process[p].command \in {"mpg123", "ffplay"}
                  /\ process[p].command = "ffplay"
                     => /\ monitor[p] = NoMonitor
                        /\ \A c \in Channels : pipes[p][c] = "none"
                           /\ reader[p][c] = "none"
            /\ monitor[p] # NoMonitor => process[p].command = "mpg123")
    /\ [][\A r \in Requests :
            /\ ( process[r].state = "none" /\ process'[r].state # "none" )
               => /\ process'[r].command = "mpg123"
                     <=> Contains(handler[r].link, Mp3)
                  /\ process'[r].command = "ffplay"
                     <=> ~Contains(handler[r].link, Mp3)
                  /\ \A c \in Channels :
                        pipes'[r][c] = "open" <=> Contains(handler[r].link, Mp3)
            /\ ( handler[r].pc = "await_exec" /\ handler'[r].pc = "done" )
               => /\ monitor'[r].pc = "created"
                     <=> Contains(handler[r].link, Mp3)
                  /\ monitor'[r] = NoMonitor
                     <=> ~Contains(handler[r].link, Mp3)
                  /\ worker'[r].pc = "created"
                  /\ scrobbling_task' = r
      ]_vars

\* Both kinds of session have been started: an mp3 one with its monitor and
\* an ffplay one with a worker and no monitor.
C18_Witness ==
    \E p, q \in Requests :
       /\ process[p].command = "mpg123"
       /\ monitor[p].pc # "none"
       /\ worker[p].pc # "none"
       /\ process[q].command = "ffplay"
       /\ monitor[q] = NoMonitor
       /\ worker[q].pc # "none"


\* ------------------------------------------------------- claims on the stop

\* C19: a stop_playback that has returned has answered with success; a
\* handler that waits for the process it has terminated goes on only when that
\* process has exited, and resets the session state in that very step, a stop
\* handler then returning success; and no step of a handler ends a process
\* (there is no kill): a process ends by a step of its own.
C19_StopWaitsForExit ==
    /\ [](\A r \in Requests :
            ( handler[r].kind = "stop" /\ handler[r].pc = "done" )
            => handler[r].status_code = 200)
    /\ [][/\ \A r \in Requests :
               ( handler[r].pc = "await_process" /\ handler'[r] # handler[r] )
               => /\ process[handler[r].waiting_for].state = "exited"
                  /\ playback_process' = NoProcess
                  /\ current_station_info' = NoStation
                  /\ current_track_info' = NoTrack
                  /\ handler[r].kind = "stop"
                     => /\ handler'[r].pc = "done"
                        /\ handler'[r].status_code = 200
          /\ \A p \in Requests :
               ( process[p].state = "alive" /\ process'[p].state # "alive" )
               => handler' = handler
      ]_vars

\* A stop_playback has terminated the running decoder and has waited until it
\* exited; it is about to reset the session state, which is still that of the
\* session.
C19_Witness ==
    \E r \in Requests :
       /\ handler[r].kind = "stop"
       /\ handler[r].pc = "await_process"
       /\ WaitReturns(handler[r].waiting_for)
       /\ playback_process = handler[r].waiting_for
       /\ current_station_info.name = StationX

\* C20: a handler awaits a worker task only after it has cancelled it; a
\* cancelled worker that has not ended can end at once, whether it sleeps or
\* waits for a submission, and its only step is to end; the submission goes
\* on in its thread and the handler that awaited the worker goes on without
\* it.
C20_PromptCancellation ==
    /\ [](\A r \in Requests :
            handler[r].pc = "await_task"
            => worker[handler[r].waiting_for].cancelled)
    /\ [](\A w \in Requests :
            ( worker[w].cancelled /\ worker[w].pc # "done" )
            => ENABLED WorkerCancelled(w))
    /\ [](\A r \in Requests :
            ( handler[r].pc = "await_task"
              /\ worker[handler[r].waiting_for].pc = "done" )
            => ENABLED TaskAwaited(r))
    /\ [][\A w \in Requests :
            ( worker[w].cancelled /\ worker'[w] # worker[w] )
            => /\ worker[w].pc \in {"created", "sleep", "executor"}
               /\ worker'[w] = [worker[w] EXCEPT !.pc = "done"]
               /\ job' = job
      ]_vars

\* A stop_playback has cancelled the worker while its submission was in
\* flight and has gone on past the await of the task; the submission is
\* still in flight.
C20_Witness ==
    /\ handler[1].kind = "play"
    /\ handler[2].kind = "stop"
    /\ handler[2].pc \in {"await_process", "done"}
    /\ worker[1].cancelled
    /\ worker[1].pc = "done"
    /\ worker[1].title # None
    /\ job[1].pc \in {"queued", "post"}
    /\ scrobbling_task = NoTask


\* ------------------------------------------- claims on a decoder that exits

\* The decoder of the recorded session has exited by itself and its pipes
\* have reached their end, after it had published a track with an artist.
ExitedAfterLaunch ==
    /\ process[1].state = "exited"
    /\ \A c \in Channels : pipes[1][c] = "eof"
    /\ worker[1].pc # "none"
    /\ current_track_info.artist # None

\* C17: once the decoder of a recorded session has exited by itself, its
\* monitor task and its worker task both come to an end, and no step starts
\* a process but the launch of a play_station.
C17_SelfStop ==
    /\ ExitedAfterLaunch
       ~> ( monitor[1].pc \in {"none", "done"} /\ worker[1].pc = "done" )
    /\ [][( process[1].state # "alive" /\ process'[1].state = "alive" )
          => handler[1].pc = "json"]_vars

\* The part of C17 that the monitor keeps: after the exit the monitor task
\* comes to an end.
MonitorStopsAfterExit ==
    ( process[1].state = "exited" /\ worker[1].pc # "none" )
    ~> ( monitor[1].pc \in {"none", "done"} )

\* The worker of a session whose decoder has exited never ends.
WorkerOutlivesDecoder ==
    [](ExitedAfterLaunch => [](worker[1].pc # "done"))


\* -------------------------------------------- claims on the value and its split

\* The text of the call's line after StreamTitle=' up to the first ';  that
\* follows.
ShortestValue ==
    LET w == call.value \o ValueEnd \o call.suffix
        n == CHOOSE i \in 1..Len(w) :
                /\ i < Len(w) /\ w[i] = "'" /\ w[i + 1] = ";"
                /\ \A k \in 1..(i - 1) : ~(w[k] = "'" /\ w[k + 1] = ";")
    IN  SubSeq(w, 1, n - 1)

\* s without the blanks at its ends.
Trimmed(s) ==
    LET keep == {i \in 1..Len(s) : s[i] # " "}
    IN  IF keep = {} THEN <<>>
        ELSE SubSeq(s, CHOOSE i \in keep : \A k \in keep : i <= k,
                       CHOOSE i \in keep : \A k \in keep : i >= k)

\* ShortestValue without the blanks at its ends and then without apostrophes.
CleanedValue == SelectSeq(Trimmed(ShortestValue), LAMBDA c : c # "'")

\* s is  artist sep title  for the first occurrence of sep in s, up to the
\* blanks at the ends of the two parts.
SplitsAt(s, sep, artist, title) ==
    \E i \in 1..Len(s) :
       /\ i + Len(sep) - 1 <= Len(s)
       /\ SubSeq(s, i, i + Len(sep) - 1) = sep
       /\ \A k \in 1..(i - 1) :
             ~( k + Len(sep) - 1 <= Len(s)
                /\ SubSeq(s, k, k + Len(sep) - 1) = sep )
       /\ artist = Trimmed(SubSeq(s, 1, i - 1))
       /\ title = Trimmed(SubSeq(s, i + Len(sep), Len(s)))

\* The separators in their order of priority.
SeparatorOrder ==
    << <<" ","-"," ">>, <<" ","\\u2013"," ">>, <<" ","\\u2014"," ">>,
       <<" ","|"," ">>, <<":"," ">> >>

\* sep occurs in s.
Occurs(s, sep) ==
    \E i \in 1..Len(s) :
       i + Len(sep) - 1 <= Len(s) /\ SubSeq(s, i, i + Len(sep) - 1) = sep

\* C23: the value is split at the first occurrence of the first separator, in
\* the order  ' - ', en dash, em dash, ' | ', ': ',  that occurs in it, also
\* when a separator of lower priority occurs further left; the artist is the
\* text to the left and the title the text to the right.
C23_SeparatorPriority ==
    call.pc = "returned" =>
       \A k \in 1..Len(SeparatorOrder) :
          ( /\ Occurs(CleanedValue, SeparatorOrder[k])
            /\ \A j \in 1..(k - 1) : ~Occurs(CleanedValue, SeparatorOrder[j]) )
          => SplitsAt(CleanedValue, SeparatorOrder[k], call.artist, call.title)

\* The call has returned for the value  a: a - a,  in which the colon comes
\* first and the hyphen wins.
C23_Witness ==
    /\ call.pc = "returned"
    /\ call.value = <<"a",":"," ","a"," ","-"," ","a">>
    /\ call.artist = <<"a",":"," ","a">>
    /\ call.title = <<"a">>

\* C24: what extract_icy_meta returns is made of the shortest text between
\* StreamTitle=' and the first following ';  stripped of the blanks at its
\* ends and then freed of every apostrophe: without a separator in it that
\* text is the title, with one it is split into artist and title, and no
\* apostrophe is left in either.
C24_ValueExtraction ==
    call.pc = "returned" =>
       /\ call.title # None
       /\ \A i \in 1..Len(call.title) : call.title[i] # "'"
       /\ call.artist # None
          => \A i \in 1..Len(call.artist) : call.artist[i] # "'"
       /\ IF \E k \in 1..Len(SeparatorOrder) :
                Occurs(CleanedValue, SeparatorOrder[k])
          THEN \E k \in 1..Len(SeparatorOrder) :
                  SplitsAt(CleanedValue, SeparatorOrder[k],
                           call.artist, call.title)
          ELSE call.title = Trimmed(CleanedValue) /\ call.artist = None

\* The call has returned for the value  ' - a';  followed by a second pair:
\* the value ends at the first ';  and the apostrophe that is removed after
\* the strip leaves a separator at the start.
C24_Witness ==
    /\ call.pc = "returned"
    /\ call.value = <<"'"," ","-"," ","a","'",";">>
    /\ call.suffix # <<>>
    /\ call.artist = <<>>
    /\ call.title = <<"a">>


\* ------------------------------------------------------ claims on the monitor

\* C25: a step in which a reader takes a line that is no marker (no ICY-META:
\* prefix, no StreamTitle=, or no value closed by ';) leaves TrackInfo as it
\* is and ends no task: the reader waits for the next line, unless the test of
\* its loop finds no running process.
C25_NoMarkerIgnored ==
    [][\A p \in Requests, c \in Channels, line \in NoMarkerLines :
          PipeLine(p, c, line)
          => /\ current_track_info' = current_track_info
             /\ monitor' = monitor
             /\ \A m \in Requests :
                   ( monitor[m].bound = p /\ reader[m][c] = "wait" )
                   => reader'[m][c] =
                         IF /\ playback_process # NoProcess
                            /\ process[playback_process].state = "alive"
                         THEN "wait" ELSE "done"
      ]_vars

\* A track is published and the reader of stdout, its process running, is
\* about to take a line that is no marker; the session is that of the track.
C25_Witness ==
    /\ current_track_info.title = <<"B">>
    /\ playback_process = 1
    /\ process[1].state = "alive"
    /\ reader[1]["stdout"] = "wait"
    /\ \A line \in NoMarkerLines : ENABLED PipeLine(1, "stdout", line)

\* C26: whenever a reader can take a marker line for which extract_icy_meta
\* returns a title, taking it overwrites TrackInfo with the title and the
\* artist it returns and no album, whatever these values are.
C26_PublishesWhateverParsed ==
    \A p \in Requests, c \in Channels, line \in MarkerLines :
       ( ENABLED PipeLine(p, c, line) /\ Parsed[line].title # None )
       => ENABLED ( /\ PipeLine(p, c, line)
                    /\ current_track_info' = [title |-> Parsed[line].title,
                                              artist |-> Parsed[line].artist,
                                              album |-> None] )


\* C30: the two readers of a monitor are independent: a step that ends one
\* of them (end of stream, an exception, or the test of its loop) leaves the
\* other as it is; the monitor task ends only when none of its readers is
\* left; and once the process a monitor is bound to has exited, its readers
\* end and the monitor task ends.
C30_IndependentReaders ==
    /\ [][\A m \in Requests :
            /\ \A c, d \in Channels :
                  ( /\ c # d
                    /\ reader[m][c] \in {"created", "wait"}
                    /\ reader'[m][c] = "done" )
                  => reader'[m][d] = reader[m][d]
            /\ ( monitor[m].pc = "gather" /\ monitor'[m].pc = "done" )
               => \A c \in Channels : reader[m][c] \in {"none", "done"}
      ]_vars
    /\ \A m \in Requests :
          ( /\ monitor[m].pc = "gather"
            /\ process[monitor[m].bound].state = "exited" )
          ~> ( /\ monitor[m].pc = "done"
               /\ \A c \in Channels : reader[m][c] \in {"none", "done"} )

\* The reader of stdout has ended on an exception while the decoder runs;
\* the reader of stderr still waits for its next line.
C30_Witness ==
    /\ playback_process = 1
    /\ process[1].state = "alive"
    /\ handler[2].pc = "idle"
    /\ monitor[1].pc = "gather"
    /\ pipes[1]["stdout"] = "open"
    /\ reader[1]["stdout"] = "done"
    /\ reader[1]["stderr"] = "wait"

\* The monitor of a session whose decoder has exited has ended, after one of
\* its readers had ended at the end of its stream and the other before it.
C30_WitnessFinished ==
    /\ process[1].state = "exited"
    /\ monitor[1].pc = "done"
    /\ monitor[1].bound = 1
    /\ pipes[1]["stdout"] = "open"
    /\ pipes[1]["stderr"] = "eof"


\* ----------------------------------------------------- claims on the snapshot

\* What one write of the monitor or one reset stores in TrackInfo.
WholeRecords ==
    {NoTrack} \cup
    { [title |-> Parsed[line].title, artist |-> Parsed[line].artist,
       album |-> None] : line \in DecoderLines \cup TickLines \cup MonitorLines }

\* C27: TrackInfo always holds what one write or one reset stored; the title,
\* artist and album that a pass of the worker took, and those it handed to
\* the executor, are such a record, namely TrackInfo as it was in the step of
\* the pass; and so is the track in the answer of a status request, namely
\* TrackInfo as it was in the step that returned it.
C27_AtomicSnapshot ==
    /\ [](/\ current_track_info \in WholeRecords
          /\ \A w \in Requests :
                /\ [title |-> worker[w].title, artist |-> worker[w].artist,
                    album |-> worker[w].album] \in WholeRecords
                /\ job[w].pc = "queued"
                   => [title |-> job[w].title, artist |-> job[w].artist,
                       album |-> job[w].album] \in WholeRecords
          /\ \A r \in Requests :
                handler[r].body.current_track_info \in WholeRecords)
    /\ [][/\ \A w \in Requests :
               ( WorkerStart(w) \/ WorkerTick(w) )
               => /\ worker'[w].title = current_track_info.title
                  /\ worker'[w].artist = current_track_info.artist
                  /\ worker'[w].album = current_track_info.album
          /\ \A r \in Requests :
               ( handler[r].pc = "audio" /\ handler'[r].pc = "done" )
               => handler'[r].body.current_track_info = current_track_info
      ]_vars

\* A pass of the worker took a track between two passes that found none, and
\* a status request has returned that track while the worker held it.
C27_Witness ==
    \E w, r \in Requests :
       /\ worker[w].pc = "executor"
       /\ worker[w].title = <<"B">>
       /\ worker[w].artist = <<"A">>
       /\ handler[r].kind = "status"
       /\ handler[r].pc = "done"
       /\ handler[r].body.current_track_info.title = <<"B">>
       /\ handler[r].body.current_track_info.artist = <<"A">>


\* ------------------------------------------------------- claims on the ledger

\* C22: every step leaves the ledger as it is or adds one row at its end:
\* the rows there were keep their place and their title, artist, album and
\* station. Hence the ledger of an earlier state is a prefix of the ledger of
\* every later state.
C22_AppendOnly ==
    [][\/ ledger' = ledger
       \/ /\ Len(ledger') = Len(ledger) + 1
          /\ \A i \in 1..Len(ledger) : ledger'[i] = ledger[i]
      ]_vars

\* A row was added behind the row the ledger held at the start, by a session
\* that a Stop or a second Play has ended since.
C22_Witness ==
    /\ Len(ledger) = 2
    /\ ledger[1] = [title |-> <<"B">>, artist |-> <<"A">>, album |-> <<>>,
                    station |-> StationX]
    /\ ledger[2] # ledger[1]
    /\ handler[2].pc = "done"


\* ------------------------------------------------------ claims on the handlers

\* C21: a handler of Play or Stop that has ended has returned a response, one
\* of success or one that tells of the error; no exception has left it.
C21_ErrorsAsResults ==
    \A r \in Requests :
       /\ handler[r].pc # "raised"
       /\ handler[r].pc = "done" => handler[r].status_code \in {200, 400, 500}

\* C28: the resources of the session are all there or all absent. Either no
\* process handle, no station, no worker task is recorded, no process is
\* alive and no worker runs; or the handle, the station with its link and
\* the worker task are recorded, the worker runs, and a session whose link
\* is captured has its monitor task.
C28_NoPartialSession ==
    \/ /\ playback_process = NoProcess
       /\ current_station_info = NoStation
       /\ scrobbling_task = NoTask
       /\ \A p \in Requests : process[p].state # "alive"
       /\ \A w \in Requests : worker[w].pc \in {"none", "done"}
    \/ /\ playback_process # NoProcess
       /\ current_station_info.link # None
       /\ scrobbling_task # NoTask
       /\ worker[scrobbling_task].pc \notin {"none", "done"}
       /\ CapturesOutput(current_station_info.link)
          => monitor[playback_process].pc # "none"

\* The handle and the station are recorded while the worker task is no
\* longer: a stop_playback_logic waits for the decoder it has terminated.
StopHalfDone ==
    /\ playback_process # NoProcess
    /\ current_station_info # NoStation
    /\ scrobbling_task = NoTask
    /\ \E r \in Requests : handler[r].pc = "await_process"

\* C29: in a stop sequence the worker task is cancelled in a step that sends
\* no signal; the handler goes on from the await of the task only when the
\* cancelled task has ended; the step that sends the termination signal
\* comes after that and clears nothing; and the handler that waits for the
\* process clears the process handle, the station and TrackInfo in the step
\* it takes once that process has exited, not before.
C29_StopOrder ==
    [][\A r \in Requests :
          /\ \A w \in Requests :
                ( ~worker[w].cancelled /\ worker'[w].cancelled )
                => process' = process
          /\ ( handler[r].pc = "await_task" /\ handler'[r] # handler[r] )
             => /\ worker[handler[r].waiting_for].cancelled
                /\ worker[handler[r].waiting_for].pc = "done"
          /\ ( handler[r].pc # "await_process"
               /\ handler'[r].pc = "await_process" )
             => /\ process'[handler'[r].waiting_for].sigterm
                /\ process[handler'[r].waiting_for].state = "alive"
                /\ handler[r].pc = "idle"
                   => \/ scrobbling_task = NoTask
                      \/ worker[scrobbling_task].pc = "done"
                /\ playback_process' = playback_process
                /\ current_station_info' = current_station_info
                /\ current_track_info' = current_track_info
          /\ ( handler[r].pc = "await_process" /\ handler'[r] # handler[r] )
             => /\ process[handler[r].waiting_for].state = "exited"
                /\ ~process[handler[r].waiting_for].sigterm
                /\ playback_process' = NoProcess
                /\ current_station_info' = NoStation
                /\ current_track_info' = NoTrack
          /\ \A p \in Requests :
                ( ~process[p].sigterm /\ process'[p].sigterm )
                => \E q \in Requests :
                      /\ handler[q].pc \in {"idle", "await_task"}
                      /\ handler'[q].pc = "await_process"
                      /\ handler'[q].waiting_for = p
      ]_vars

\* A Stop has cancelled the worker of a session with a track, has awaited
\* its end, has sent the signal and waits for the decoder, which runs on;
\* nothing is cleared yet.
C29_Witness ==
    \E r \in Requests :
       /\ handler[r].kind = "stop"
       /\ handler[r].pc = "await_process"
       /\ process[handler[r].waiting_for].sigterm
       /\ process[handler[r].waiting_for].state = "alive"
       /\ playback_process = handler[r].waiting_for
       /\ worker[playback_process].cancelled
       /\ worker[playback_process].pc = "done"
       /\ scrobbling_task = NoTask
       /\ current_station_info.name = StationX
       /\ current_track_info.title = <<"B">>


\* -------------------------------------------- claims on the submissions' jobs

\* C31: the read of the last row and the append of one submission are not
\* interleaved with those of another: while a job is between its read and
\* its append (its POST is in flight), no other job reads the ledger or
\* appends to it, also when the two jobs come from the workers of two
\* sessions.
C31_NoOverlap ==
    [][\A j, k \in Requests :
          ( /\ j # k
            /\ job[j].pc = "post"
            /\ job'[k] # job[k] )
          => job[k].pc \notin {"queued", "post"}
      ]_vars

\* Two jobs have both read the ledger and neither has appended yet.
TwoJobsInFlight ==
    \E j, k \in Requests : j # k /\ job[j].pc = "post" /\ job[k].pc = "post"

\* The same with two sessions one after the other: the second Play has torn
\* the first session down (its worker cancelled and ended, its decoder
\* exited) and the job of the first worker is still waiting for its answer.
JobOutlivesSession ==
    /\ TwoJobsInFlight
    /\ handler[2].kind = "play"
    /\ handler[2].pc = "done"
    /\ worker[1].cancelled
    /\ worker[1].pc = "done"
    /\ process[1].state = "exited"
    /\ job[1].pc = "post"

\* The last request so far was a Stop, it has returned, no earlier handler
\* is still in flight, and it has left no session: no process handle and no
\* worker task that runs.
StopReturned ==
    /\ \E r \in Requests :
          /\ handler[r].kind = "stop"
          /\ handler[r].pc = "done"
          /\ \A q \in Requests :
                /\ q < r => handler[q].pc \in {"done", "raised"}
                /\ q > r => handler[q].pc = "idle"
    /\ playback_process = NoProcess
    /\ \A w \in Requests : worker[w].pc \in {"none", "done"}

\* C32: from the return of a Stop until the next Play, no step sends a
\* submission to the remote endpoint (no job goes on to its POST) and no
\* step appends a row to the ledger, also when the worker was cancelled
\* while its job was in the executor.
C32_QuietAfterStop ==
    [][StopReturned
       => /\ ledger' = ledger
          /\ \A j \in Requests : job'[j].pc = "post" => job[j].pc = "post"
      ]_vars

\* A row was appended after the Stop had returned: the job of the cancelled
\* worker has been answered 200 since.
RowAfterStop ==
    /\ StopReturned
    /\ handler[1].kind = "play"
    /\ worker[1].cancelled
    /\ job[1].pc = "done"
    /\ job[1].response = 200
    /\ ledger # <<>>
    /\ ledger[Len(ledger)].title = job[1].title
    /\ ledger[Len(ledger)].station = job[1].station_name

\* C33: each row of the ledger differs in its title or in its artist from
\* the row before it.
C33_NoConsecutiveDuplicate ==
    \A i \in 2..Len(ledger) :
       \/ ledger[i].title # ledger[i - 1].title
       \/ ledger[i].artist # ledger[i - 1].artist

\* Two rows in a row hold the same track: the job of a session that a second
\* Play has torn down and the job of the session that Play started had both
\* read the ledger before either appended.
DuplicateAcrossSessions ==
    /\ Len(ledger) = 2
    /\ ledger[1].title = ledger[2].title
    /\ ledger[1].artist = ledger[2].artist
    /\ handler[2].kind = "play"
    /\ worker[1].cancelled
    /\ worker[1].pc = "done"
    /\ process[1].state = "exited"
    /\ job[1].response = 200
    /\ job[2].response = 200

\* C34: the track that a pass of worker w hands to the executor, which is
\* the track of the row its job may append with the worker's station, was
\* parsed from the output of the decoder of the worker's own session; and
\* the worker of a session whose decoder is ffplay, which has no monitor,
\* never hands anything to the executor.
C34_RowsOfOwnSession ==
    /\ [](\A j \in Requests :
            process[j].command = "ffplay" => job[j].pc = "none")
    /\ [][\A w \in Requests :
            ( job'[w] # job[w] /\ job'[w].pc = "queued" )
            => /\ track_source = w
               /\ process[w].command = "mpg123"
               /\ job'[w].station_name = worker[w].station_name
      ]_vars

\* The worker of a session that only plays (ffplay, no monitor) has had a
\* submission answered 200: the last row carries its station and a track
\* that the decoder of another session wrote.
PlaybackOnlyRow ==
    \E j \in Requests :
       /\ process[j].command = "ffplay"
       /\ monitor[j] = NoMonitor
       /\ job[j].pc = "done"
       /\ job[j].response = 200
       /\ ledger # <<>>
       /\ ledger[Len(ledger)].station = worker[j].station_name
       /\ ledger[Len(ledger)].title = job[j].title


\* ------------------------------------------- claims on a Play without a link

\* Handler r answers status 400 in this step, no other request was in flight
\* when it arrived and none has arrived since.
AnswersNoLink(r) ==
    /\ handler[r].pc = "json"
    /\ handler'[r].pc = "done"
    /\ handler'[r].status_code = 400
    /\ handler[r].alone
    /\ \A q \in Requests : q > r => handler[q].pc = "idle"

\* C35: a Play whose body has no link answers with an error, creates no
\* process, no monitor task and no worker task, and returns after the whole
\* stop sequence: when it returns no process is alive, no worker task runs,
\* no process handle, station or worker task is recorded, and TrackInfo is
\* all-empty. Stated for a Play during which no other request was in flight.
C35_NoLinkStopsOnly ==
    [][\A r \in Requests :
          /\ ( handler[r].pc = "json" /\ handler'[r] # handler[r]
               /\ ~Truthy(handler[r].link) )
             => /\ handler'[r].pc = "done"
                /\ handler'[r].status_code = 400
          /\ AnswersNoLink(r)
             => /\ process'[r].state = "none"
                /\ worker'[r].pc = "none"
                /\ monitor'[r].pc = "none"
                /\ \A p \in Requests : process'[p].state # "alive"
                /\ \A w \in Requests : worker'[w].pc \in {"none", "done"}
                /\ playback_process' = NoProcess
                /\ current_station_info' = NoStation
                /\ scrobbling_task' = NoTask
                /\ current_track_info' = NoTrack
      ]_vars

\* The part of C35 that holds: all of it but the empty TrackInfo.
NoLinkLeavesNoSession ==
    [][\A r \in Requests :
          AnswersNoLink(r)
          => /\ process'[r].state = "none"
             /\ worker'[r].pc = "none"
             /\ monitor'[r].pc = "none"
             /\ \A p \in Requests : process'[p].state # "alive"
             /\ \A w \in Requests : worker'[w].pc \in {"none", "done"}
             /\ playback_process' = NoProcess
             /\ current_station_info' = NoStation
             /\ scrobbling_task' = NoTask
      ]_vars


\* ---------------------------------------------- claims on the duplicate test

\* The title and the artist of job j are those of the last row.
SameTrackAsLastRow(j) ==
    /\ ledger # <<>>
    /\ job[j].title = ledger[Len(ledger)].title
    /\ job[j].artist = ledger[Len(ledger)].artist

\* C36: a job (with credentials, a title and an artist, neither of them the
\* station's name) goes on to its POST exactly when its title or its artist
\* differs from that of the last row or the ledger is empty, whatever the
\* station and the album of the last row and whatever the rows before it
\* hold; otherwise it ends without a POST and without a row; and a POST
\* answered 200 appends the job's row.
C36_ComparesLastRowOnly ==
    [][\A j \in Requests :
          /\ ( job[j].pc = "queued" /\ job'[j].pc # "queued" )
             => /\ job'[j].pc = "post" <=> ~SameTrackAsLastRow(j)
                /\ job'[j].pc = "done" <=> SameTrackAsLastRow(j)
                /\ ledger' = ledger
                /\ job'[j].response = 0
          /\ ( job[j].pc = "post" /\ job'[j].pc = "done"
               /\ job'[j].response = 200 )
             => ledger' = Append(ledger,
                   [title |-> job[j].title, artist |-> job[j].artist,
                    album |-> job[j].album, station |-> job[j].station_name])
      ]_vars

\* The ledger holds a track, another track and the first track again, and
\* the job that came next, with that same track from the other station, has
\* ended without a POST.
C36_Witness ==
    /\ Len(ledger) = 3
    /\ ledger[1].title = ledger[3].title
    /\ ledger[1].artist = ledger[3].artist
    /\ ledger[2].artist # ledger[1].artist
    /\ job[1].pc = "done"
    /\ job[1].response = 0
    /\ SameTrackAsLastRow(1)
    /\ job[1].station_name # ledger[3].station
    /\ job[1].album # ledger[3].album


\* ------------------------------------ claims on the stop of an exited decoder

\* The recorded decoder has exited.
RecordedExited ==
    /\ playback_process # NoProcess
    /\ process[playback_process].state = "exited"

\* Handler r passes line 242 in this step: it arrives and finds no worker
\* task to cancel, or the task it awaited has ended.
PassesLine242(r) ==
    \/ /\ handler[r].pc = "idle"
       /\ handler'[r].pc # "idle"
       /\ handler'[r].kind \in {"play", "stop"}
       /\ scrobbling_task = NoTask \/ worker[scrobbling_task].pc = "done"
    \/ /\ handler[r].pc = "await_task"
       /\ handler'[r] # handler[r]

\* C37: a stop sequence, of Stop or of Play, that finds the recorded decoder
\* exited sends no signal and awaits no exit: the step that passes line 242
\* leaves every process as it is and clears the process handle, the station
\* and TrackInfo at once, a Stop returning success in it; and the sequence
\* has cancelled the worker task before, if one was recorded and running, and
\* has awaited its end.
C37_StopOfExited ==
    [][\A r \in Requests :
          /\ ( PassesLine242(r) /\ RecordedExited )
             => /\ process' = process
                /\ handler'[r].pc # "await_process"
                /\ playback_process' = NoProcess
                /\ current_station_info' = NoStation
                /\ current_track_info' = NoTrack
                /\ handler'[r].kind = "stop"
                   => handler'[r].pc = "done" /\ handler'[r].status_code = 200
          /\ ( /\ handler[r].pc = "idle"
               /\ handler'[r].kind \in {"play", "stop"}
               /\ RecordedExited
               /\ scrobbling_task # NoTask
               /\ worker[scrobbling_task].pc # "done" )
             => /\ worker'[scrobbling_task].cancelled
                /\ handler'[r].pc = "await_task"
                /\ handler'[r].waiting_for = scrobbling_task
                /\ UNCHANGED <<playback_process, current_station_info,
                               current_track_info, process>>
          /\ ( handler[r].pc = "await_task" /\ handler'[r] # handler[r] )
             => /\ worker[handler[r].waiting_for].pc = "done"
                /\ scrobbling_task' = NoTask
      ]_vars

\* A Stop found a session whose decoder had exited by itself, with a track
\* in TrackInfo; it has cancelled the worker, the worker has ended, and the
\* Stop is about to pass line 242.
C37_Witness ==
    \E r \in Requests :
       /\ handler[r].kind = "stop"
       /\ handler[r].pc = "await_task"
       /\ worker[handler[r].waiting_for].cancelled
       /\ worker[handler[r].waiting_for].pc = "done"
       /\ RecordedExited
       /\ ~process[playback_process].sigterm
       /\ current_station_info.name = StationX
       /\ current_track_info.title = <<"B">>


\* ----------------------------------------------- claims on the credentials

\* One of the two credentials is not configured.
CredentialMissing == ~(credentials.PHPSESSID /\ credentials.Authorization)

\* C38: with a credential missing, no job ever gets to its POST and no step
\* changes the ledger, whatever track the pass of the worker has taken; the
\* job ends without an answer, the worker that waited for it goes to sleep,
\* and no step ends the worker task.
C38_NoCredentialNoSubmission ==
    /\ [](CredentialMissing
          => \A j \in Requests : job[j].pc # "post" /\ job[j].response = 0)
    /\ [][CredentialMissing
          => /\ ledger' = ledger
             /\ \A j \in Requests :
                   ( job[j].pc = "queued" /\ job'[j].pc # "queued" )
                   => job'[j].pc = "done"
             /\ \A w \in Requests :
                   /\ worker'[w].pc # "done"
                   /\ ( worker[w].pc = "executor"
                        /\ worker'[w].pc # "executor" )
                      => worker'[w].pc = "sleep"
      ]_vars

\* The authorization token is not configured; a pass of the worker has taken
\* a track and handed it to the executor, the job has ended without a POST,
\* and the worker sleeps until its next pass.
C38_Witness ==
    /\ credentials.PHPSESSID
    /\ ~credentials.Authorization
    /\ worker[1].pc = "sleep"
    /\ worker[1].title = <<"B">>
    /\ worker[1].artist = <<"A">>
    /\ current_track_info.title = <<"B">>
    /\ job[1] = NoJob
    /\ ledger = <<>>

====
